---------------------------- MODULE Spec2Model ----------------------------
(***************************************************************************)
(* Model of the client-side chess core of Rgeral/chess: the FEN decoder    *)
(* (ChessService.parseFEN), the move generator (chessMoves.ts), the page   *)
(* handlers that validate a board move before it is submitted, the click   *)
(* handlers of the two boards made of squares, and the store's game timer. *)
(*                                                                         *)
(* Strings are sequences of one-character strings, so that split, includes,*)
(* template formatting and parseInt are modelled by what they do.          *)
(***************************************************************************)
EXTENDS Integers, Sequences, FiniteSets, TLC

VARIABLES
    \* ---- move generator calls (SpecMoves) ----
    board,      \* the ChessSquare[][] handed to the move generator
    extras,     \* number of squares of the base position that were overwritten
    op,         \* "none" | "moves" | "attack": the call made on the board
    origin,     \* the ChessSquare given to getPossibleMoves
    fenArg,     \* the fen argument of getPossibleMoves (<<>>: not given)
    rights,     \* the third field fenArg was built with (<<>> when not given)
    moves,      \* the list getPossibleMoves returned
    target,     \* the square id given to isAttacked, as <<file, rank>>
    byColor,    \* the colour given to isAttacked
    attacked,   \* the boolean isAttacked returned
    boardAfter, \* the board as it is after the call
    \* ---- board codec calls (SpecCodec) ----
    codecIn,    \* the exchange string handed to the decoder
    codecEdits, \* number of characters of the base string that were replaced
    codecOp,    \* "none" | "parseFEN" | "parseFEN2": the decoder that ran
    decoded,    \* what the decoder produced: a board, or the error thrown
    turn,       \* what turnFromFen returned
    \* ---- the game page (SpecPage) ----
    component,          \* "page" (+page.svelte) | "board" (the ChessBoard wrapper)
    hasGame,            \* $gameStore.currentGame is not null
    gameFen,            \* $gameStore.currentGame.fen
    selectedSquare,     \* $gameStore.selectedSquare
    possibleMoves,      \* $gameStore.possibleMoves
    lastSelectedFrom,   \* the component's lastSelectedFrom
    lastSelectedDests,  \* the component's lastSelectedDests
    pendingPromotion,   \* the component's pendingPromotion
    loading,            \* $gameStore.isLoading
    inflight,           \* makeMove requests sent and not answered yet
    promoting,          \* those of them an onPromote call is awaiting
    creating,           \* createGame requests sent and not answered yet
    lastEvent,          \* what the handler of the last board event did
    \* ---- the click-driven boards (SpecClick) ----
    view,               \* "simple" (ChessBoardSimple) | "grid" (the ChessBoard of squares)
    draggedFrom,        \* draggedFrom of ChessBoardSimple (draggedPiece is set and cleared with it)
    emitted,            \* the moves the last handler passed to onMove / handleMove
    clicked,            \* the last event of the board and the selection it found
    \* ---- the game timer of the store (SpecTimer) ----
    now,                \* Date.now(), in units of TickMs milliseconds
    intervals,          \* the intervals set and not cleared: [id, startTime]
    gameTimer,          \* $gameStore.gameTimer (0: null)
    elapsedTime,        \* $gameStore.elapsedTime
    gameStartTime,      \* $gameStore.gameStartTime (-1: null)
    created,            \* number of intervals created so far
    timerOp             \* what the last step of the store did

movesVars == <<board, extras, op, origin, fenArg, rights, moves, target, byColor, attacked, boardAfter>>

codecVars == <<codecIn, codecEdits, codecOp, decoded, turn>>

pageVars == <<component, hasGame, gameFen, selectedSquare, possibleMoves, lastSelectedFrom, lastSelectedDests, pendingPromotion, loading, inflight, promoting, creating, lastEvent>>

clickVars == <<view, draggedFrom, emitted, clicked>>

timerVars == <<now, intervals, gameTimer, elapsedTime, gameStartTime, created, timerOp>>

vars == <<movesVars, codecVars, pageVars, clickVars, timerVars>>

\* the values a group of variables keeps in a specification that does not
\* use it
IdleMoves ==
    /\ board = <<>>
    /\ extras = 0
    /\ op = "none"
    /\ origin = <<>>
    /\ fenArg = <<>>
    /\ rights = <<>>
    /\ moves = <<>>
    /\ target = <<"a", 0>>
    /\ byColor = "white"
    /\ attacked = FALSE
    /\ boardAfter = <<>>

IdleCodec ==
    /\ codecIn = <<>>
    /\ codecEdits = 0
    /\ codecOp = "none"
    /\ decoded = <<>>
    /\ turn = "none"

IdlePage ==
    /\ component = "page"
    /\ hasGame = FALSE
    /\ gameFen = <<>>
    /\ selectedSquare = <<>>
    /\ possibleMoves = <<>>
    /\ lastSelectedFrom = <<>>
    /\ lastSelectedDests = <<>>
    /\ pendingPromotion = [from |-> <<>>, to |-> <<>>]
    /\ loading = FALSE
    /\ inflight = 0
    /\ promoting = 0
    /\ creating = 0
    /\ lastEvent = [kind |-> "none", from |-> <<>>, to |-> <<>>, outcome |-> "none", move |-> <<>>]

IdleClick ==
    /\ view = "simple"
    /\ draggedFrom = <<>>
    /\ emitted = <<>>
    /\ clicked = [handler |-> "none", square |-> <<>>, selected |-> <<>>, moves |-> <<>>, dragged |-> <<>>]

IdleTimer ==
    /\ now = 0
    /\ intervals = {}
    /\ gameTimer = 0
    /\ elapsedTime = 0
    /\ gameStartTime = -1
    /\ created = 0
    /\ timerOp = [name |-> "none", id |-> 0, gameOver |-> FALSE, fen |-> <<>>,
                  elapsedBefore |-> 0, timerBefore |-> 0, liveBefore |-> {}]

-----------------------------------------------------------------------------
(* Text helpers: JavaScript string operations on character sequences.      *)

files == <<"a", "b", "c", "d", "e", "f", "g", "h">>

LowerLetters == <<"a","b","c","d","e","f","g","h","i","j","k","l","m",
                  "n","o","p","q","r","s","t","u","v","w","x","y","z">>
UpperLetters == <<"A","B","C","D","E","F","G","H","I","J","K","L","M",
                  "N","O","P","Q","R","S","T","U","V","W","X","Y","Z">>
DigitChars == <<"0","1","2","3","4","5","6","7","8","9">>

\* char.toUpperCase() / char.toLowerCase() on one character
toUpperCase(c) ==
    IF \E i \in 1..26 : LowerLetters[i] = c
    THEN UpperLetters[CHOOSE i \in 1..26 : LowerLetters[i] = c]
    ELSE c

toLowerCase(c) ==
    IF \E i \in 1..26 : UpperLetters[i] = c
    THEN LowerLetters[CHOOSE i \in 1..26 : UpperLetters[i] = c]
    ELSE c

\* parseInt(char) for one character; -1 stands for NaN
parseInt(c) ==
    IF \E i \in 1..10 : DigitChars[i] = c
    THEN (CHOOSE i \in 1..10 : DigitChars[i] = c) - 1
    ELSE -1

\* String.fromCharCode(97 + fileIndex)
fromCharCode97(fileIndex) ==
    IF fileIndex \in 0..25 THEN LowerLetters[fileIndex + 1] ELSE "?"

\* `${n}` for an integer n
RECURSIVE numberToString(_)
numberToString(n) ==
    IF n < 0 THEN <<"-">> \o numberToString(-n)
    ELSE IF n < 10 THEN <<DigitChars[n + 1]>>
    ELSE numberToString(n \div 10) \o <<DigitChars[(n % 10) + 1]>>

\* `${file}${rank}`
squareId(file, rank) == <<file>> \o numberToString(rank)

\* s.split(sep) for a one-character separator
RECURSIVE splitFrom(_, _, _, _, _)
splitFrom(s, sep, i, cur, acc) ==
    IF i > Len(s) THEN Append(acc, cur)
    ELSE IF s[i] = sep THEN splitFrom(s, sep, i + 1, <<>>, Append(acc, cur))
    ELSE splitFrom(s, sep, i + 1, Append(cur, s[i]), acc)

split(s, sep) == splitFrom(s, sep, 1, <<>>, <<>>)

\* list.includes(x) / string.includes(char)
includes(list, x) == \E i \in 1..Len(list) : list[i] = x

\* files.indexOf(file): 0-based, -1 when absent
indexOf(file) ==
    IF \E i \in 1..8 : files[i] = file
    THEN (CHOOSE i \in 1..8 : files[i] = file) - 1
    ELSE -1

\* files[f] for a 0-based index; out of range reads undefined
filesAt(f) == IF f \in 0..7 THEN files[f + 1] ELSE "undefined"

RECURSIVE concat(_)
concat(ss) == IF ss = <<>> THEN <<>> ELSE Head(ss) \o concat(Tail(ss))

-----------------------------------------------------------------------------
(* Data: ChessPiece, ChessSquare.                                          *)

Null == [type |-> "null", color |-> "null"]      \* piece: null / undefined
NoSquare == [file |-> "null", rank |-> 0, piece |-> Null]   \* getSquare's null

PieceTypes == {"pawn", "rook", "knight", "bishop", "queen", "king"}
Colors == {"white", "black"}
Pieces == [type : PieceTypes, color : Colors]

hasPiece(sq) == sq.piece # Null
opposite(color) == IF color = "white" THEN "black" ELSE "white"

-----------------------------------------------------------------------------
(* Board Codec: ChessService.parseFEN, in the two versions of the source.  *)

isDigit18(c) == c \in {"1", "2", "3", "4", "5", "6", "7", "8"}

\* the switch of the first parseFEN: an unknown letter defaults to a pawn
pieceOfChar(c) ==
    LET pieceType == toLowerCase(c)
        type == CASE pieceType = "k" -> "king"
                  [] pieceType = "q" -> "queen"
                  [] pieceType = "r" -> "rook"
                  [] pieceType = "b" -> "bishop"
                  [] pieceType = "n" -> "knight"
                  [] pieceType = "p" -> "pawn"
                  [] OTHER -> "pawn"
    IN [type |-> type, color |-> IF c = toUpperCase(c) THEN "white" ELSE "black"]

\* charToPiece with the case test inverted: lowercase taken for white
charToPiece_CaseInverted(c) ==
    LET pieceType == toLowerCase(c)
        type == CASE pieceType = "p" -> "pawn"
                  [] pieceType = "r" -> "rook"
                  [] pieceType = "n" -> "knight"
                  [] pieceType = "b" -> "bishop"
                  [] pieceType = "q" -> "queen"
                  [] pieceType = "k" -> "king"
                  [] OTHER -> "undefined"
    IN [type |-> type, color |-> IF c = toUpperCase(c) THEN "black" ELSE "white"]

\* charToPiece of the second parseFEN: typeMap[pieceType] is undefined for
\* an unknown letter
charToPiece(c) ==
    LET pieceType == toLowerCase(c)
        type == CASE pieceType = "p" -> "pawn"
                  [] pieceType = "r" -> "rook"
                  [] pieceType = "n" -> "knight"
                  [] pieceType = "b" -> "bishop"
                  [] pieceType = "q" -> "queen"
                  [] pieceType = "k" -> "king"
                  [] OTHER -> "undefined"
    IN [type |-> type, color |-> IF c = toUpperCase(c) THEN "white" ELSE "black"]

\* emptySquares with the file not advanced from one empty square to the next
emptySquares_SameFile(n, fileIndex, rankIndex) ==
    [i \in 1..n |-> [file |-> fromCharCode97(fileIndex),
                     rank |-> 8 - rankIndex, piece |-> Null]]

\* the squares one character of a rank group contributes, from fileIndex on
emptySquares(n, fileIndex, rankIndex) ==
    [i \in 1..n |-> [file |-> fromCharCode97(fileIndex + i - 1),
                     rank |-> 8 - rankIndex, piece |-> Null]]

\* the inner loop "for (const char of rank)"; strict selects charToPiece
RECURSIVE parseRank(_, _, _, _, _, _)
parseRank(rank, rankIndex, i, fileIndex, row, strict) ==
    IF i > Len(rank) THEN row
    ELSE IF isDigit18(rank[i])
    THEN parseRank(rank, rankIndex, i + 1, fileIndex + parseInt(rank[i]),
                   row \o emptySquares(parseInt(rank[i]), fileIndex, rankIndex),
                   strict)
    ELSE parseRank(rank, rankIndex, i + 1, fileIndex + 1,
                   Append(row, [file |-> fromCharCode97(fileIndex),
                                rank |-> 8 - rankIndex,
                                piece |-> IF strict THEN charToPiece(rank[i])
                                          ELSE pieceOfChar(rank[i])]),
                   strict)

\* A decode result: the board, or the exception that escaped.
Decoded(b) == [error |-> "none", board |-> b]
Thrown(e) == [error |-> e, board |-> <<>>]

\* first version: ranks.forEach over however many groups there are
parseFEN(fen) ==
    LET position == split(fen, " ")[1]
        ranks == split(position, "/")
    IN Decoded([k \in 1..Len(ranks) |-> parseRank(ranks[k], k - 1, 1, 0, <<>>, FALSE)])

\* second version: a loop over rankIndex 0..7; iterating a missing group
\* (ranks[rankIndex] undefined) throws a TypeError
parseFEN2(fen) ==
    LET position == split(fen, " ")[1]
        ranks == split(position, "/")
    IN IF Len(ranks) < 8 THEN Thrown("TypeError")
       ELSE Decoded([k \in 1..8 |-> parseRank(ranks[k], k - 1, 1, 0, <<>>, TRUE)])

-----------------------------------------------------------------------------
(* Move generator: chessMoves.ts.                                          *)

\* getSquare: the first square, rows in order, with this file and rank
getSquare(b, file, rank) ==
    LET rowHits == {i \in 1..Len(b) :
                      \E j \in 1..Len(b[i]) : b[i][j].file = file /\ b[i][j].rank = rank}
    IN IF rowHits = {} THEN NoSquare
       ELSE LET i0 == CHOOSE i \in rowHits : \A k \in rowHits : i <= k
                colHits == {j \in 1..Len(b[i0]) :
                              b[i0][j].file = file /\ b[i0][j].rank = rank}
                j0 == CHOOSE j \in colHits : \A k \in colHits : j <= k
            IN b[i0][j0]

isEmpty(b, file, rank) ==
    LET sq == getSquare(b, file, rank) IN sq # NoSquare /\ ~hasPiece(sq)

onBoard(f, r) == f >= 0 /\ f < 8 /\ r >= 1 /\ r <= 8

\* castRay without the break after a capture: the ray goes on behind an
\* enemy piece
RECURSIVE castRay_Jump(_, _, _, _, _, _)
castRay_Jump(b, f, r, df, dr, color) ==
    IF ~onBoard(f, r) THEN <<>>
    ELSE LET dest == getSquare(b, filesAt(f), r) IN
         IF dest = NoSquare THEN <<>>
         ELSE IF ~hasPiece(dest) \/ dest.piece.color # color
         THEN <<squareId(filesAt(f), r)>> \o castRay_Jump(b, f + df, r + dr, df, dr, color)
         ELSE <<>>

\* the while loop of getBishopMoves / getRookMoves along one direction
RECURSIVE castRay(_, _, _, _, _, _)
castRay(b, f, r, df, dr, color) ==
    IF ~onBoard(f, r) THEN <<>>
    ELSE LET dest == getSquare(b, filesAt(f), r) IN
         IF dest = NoSquare THEN <<>>
         ELSE IF ~hasPiece(dest)
         THEN <<squareId(filesAt(f), r)>> \o castRay(b, f + df, r + dr, df, dr, color)
         ELSE IF dest.piece.color # color THEN <<squareId(filesAt(f), r)>>
         ELSE <<>>

bishopDirections == << <<1, 1>>, <<1, -1>>, <<-1, 1>>, <<-1, -1>> >>
rookDirections == << <<1, 0>>, <<-1, 0>>, <<0, 1>>, <<0, -1>> >>

getBishopMoves(b, square, color) ==
    LET fileIdx == indexOf(square.file)
        rankIdx == square.rank
    IN concat([d \in 1..4 |->
                 castRay(b, fileIdx + bishopDirections[d][1], rankIdx + bishopDirections[d][2],
                         bishopDirections[d][1], bishopDirections[d][2], color)])

getRookMoves(b, square, color) ==
    LET fileIdx == indexOf(square.file)
        rankIdx == square.rank
    IN concat([d \in 1..4 |->
                 castRay(b, fileIdx + rookDirections[d][1], rankIdx + rookDirections[d][2],
                         rookDirections[d][1], rookDirections[d][2], color)])

\* getQueenMoves that spreads the rook's moves twice
getQueenMoves_RookTwice(b, square, color) ==
    getBishopMoves(b, square, color) \o getRookMoves(b, square, color)
        \o getRookMoves(b, square, color)

getQueenMoves(b, square, color) ==
    getBishopMoves(b, square, color) \o getRookMoves(b, square, color)

\* stepTo without the test of the colour of the piece on the target
stepTo_IgnoreColor(b, f, r, color) ==
    IF ~onBoard(f, r) THEN <<>>
    ELSE LET dest == getSquare(b, filesAt(f), r) IN
         IF dest = NoSquare THEN <<>> ELSE <<squareId(filesAt(f), r)>>

\* one target of the knight's and the king's loops: pushed when it is on the
\* board, exists, and holds no piece of this colour
stepTo(b, f, r, color) ==
    IF ~onBoard(f, r) THEN <<>>
    ELSE LET dest == getSquare(b, filesAt(f), r) IN
         IF dest = NoSquare THEN <<>>
         ELSE IF ~hasPiece(dest) \/ dest.piece.color # color
         THEN <<squareId(filesAt(f), r)>>
         ELSE <<>>

knightMoves == << <<1, 2>>, <<2, 1>>, <<2, -1>>, <<1, -2>>,
                  <<-1, -2>>, <<-2, -1>>, <<-2, 1>>, <<-1, 2>> >>

\* getKnightMoves with a knight that cannot leap: a target is left out when
\* the square next to the origin on the long side of the jump is occupied
getKnightMoves_NoLeap(b, square, color) ==
    LET fileIdx == indexOf(square.file)
        rankIdx == square.rank
        sign(n) == IF n > 0 THEN 1 ELSE -1
        legFree(df, dr) ==
            IF df \in {2, -2}
            THEN isEmpty(b, filesAt(fileIdx + sign(df)), rankIdx)
            ELSE isEmpty(b, filesAt(fileIdx), rankIdx + sign(dr))
    IN concat([k \in 1..8 |->
                 IF legFree(knightMoves[k][1], knightMoves[k][2])
                 THEN stepTo(b, fileIdx + knightMoves[k][1], rankIdx + knightMoves[k][2], color)
                 ELSE <<>>])

getKnightMoves(b, square, color) ==
    LET fileIdx == indexOf(square.file)
        rankIdx == square.rank
    IN concat([k \in 1..8 |->
                 stepTo(b, fileIdx + knightMoves[k][1], rankIdx + knightMoves[k][2], color)])

\* getPawnMoves without the test that the square in front exists
getPawnMoves_NoEdgeCheck(b, square, color) ==
    LET fileIdx == indexOf(square.file)
        rankIdx == square.rank
        dir == IF color = "white" THEN 1 ELSE -1
        startRank == IF color = "white" THEN 2 ELSE 7
        oneForward == getSquare(b, filesAt(fileIdx), rankIdx + dir)
        twoForward == getSquare(b, filesAt(fileIdx), rankIdx + 2 * dir)
        forward ==
            IF ~hasPiece(oneForward)
            THEN <<squareId(filesAt(fileIdx), rankIdx + dir)>> \o
                 (IF rankIdx = startRank /\ twoForward # NoSquare /\ ~hasPiece(twoForward)
                  THEN <<squareId(filesAt(fileIdx), rankIdx + 2 * dir)>>
                  ELSE <<>>)
            ELSE <<>>
        capture(df) ==
            LET f == fileIdx + df
                diag == getSquare(b, filesAt(f), rankIdx + dir)
            IN IF f >= 0 /\ f < 8 /\ diag # NoSquare /\ hasPiece(diag)
                  /\ diag.piece.color # color
               THEN <<squareId(filesAt(f), rankIdx + dir)>>
               ELSE <<>>
    IN forward \o capture(-1) \o capture(1)

\* getPawnMoves with the double advance tested apart from the single one:
\* the pawn jumps over a piece standing right in front of it
getPawnMoves_JumpOver(b, square, color) ==
    LET fileIdx == indexOf(square.file)
        rankIdx == square.rank
        dir == IF color = "white" THEN 1 ELSE -1
        startRank == IF color = "white" THEN 2 ELSE 7
        oneForward == getSquare(b, filesAt(fileIdx), rankIdx + dir)
        twoForward == getSquare(b, filesAt(fileIdx), rankIdx + 2 * dir)
        forward ==
            (IF oneForward # NoSquare /\ ~hasPiece(oneForward)
             THEN <<squareId(filesAt(fileIdx), rankIdx + dir)>> ELSE <<>>) \o
            (IF rankIdx = startRank /\ twoForward # NoSquare /\ ~hasPiece(twoForward)
             THEN <<squareId(filesAt(fileIdx), rankIdx + 2 * dir)>> ELSE <<>>)
        capture(df) ==
            LET f == fileIdx + df
                diag == getSquare(b, filesAt(f), rankIdx + dir)
            IN IF f >= 0 /\ f < 8 /\ diag # NoSquare /\ hasPiece(diag)
                  /\ diag.piece.color # color
               THEN <<squareId(filesAt(f), rankIdx + dir)>>
               ELSE <<>>
    IN forward \o capture(-1) \o capture(1)

getPawnMoves(b, square, color) ==
    LET fileIdx == indexOf(square.file)
        rankIdx == square.rank
        dir == IF color = "white" THEN 1 ELSE -1
        startRank == IF color = "white" THEN 2 ELSE 7
        oneForward == getSquare(b, filesAt(fileIdx), rankIdx + dir)
        twoForward == getSquare(b, filesAt(fileIdx), rankIdx + 2 * dir)
        forward ==
            IF oneForward # NoSquare /\ ~hasPiece(oneForward)
            THEN <<squareId(filesAt(fileIdx), rankIdx + dir)>> \o
                 (IF rankIdx = startRank /\ twoForward # NoSquare /\ ~hasPiece(twoForward)
                  THEN <<squareId(filesAt(fileIdx), rankIdx + 2 * dir)>>
                  ELSE <<>>)
            ELSE <<>>
        capture(df) ==
            LET f == fileIdx + df
                diag == getSquare(b, filesAt(f), rankIdx + dir)
            IN IF f >= 0 /\ f < 8 /\ diag # NoSquare /\ hasPiece(diag)
                  /\ diag.piece.color # color
               THEN <<squareId(filesAt(f), rankIdx + dir)>>
               ELSE <<>>
    IN forward \o capture(-1) \o capture(1)

\* the (df, dr) pairs of getKingMoves' nested loops, in loop order
kingSteps == << <<-1, -1>>, <<-1, 0>>, <<-1, 1>>, <<0, -1>>,
                <<0, 1>>, <<1, -1>>, <<1, 0>>, <<1, 1>> >>

RECURSIVE getPossibleMoves(_, _, _)
RECURSIVE isAttacked(_, _, _, _)

\* getCastlingMoves without the attack test of the transit square (f / d)
getCastlingMoves_NoTransit(b, square, color, fen) ==
    LET parts == split(fen, " ")
        castling == IF Len(parts) >= 3 THEN parts[3] ELSE <<>>
        whiteHome == color = "white" /\ square.file = "e" /\ square.rank = 1
        blackHome == color = "black" /\ square.file = "e" /\ square.rank = 8
    IN  (IF whiteHome /\ includes(castling, "K")
            /\ isEmpty(b, "f", 1) /\ isEmpty(b, "g", 1)
            /\ ~isAttacked(b, "e", 1, "black")
            /\ ~isAttacked(b, "g", 1, "black")
         THEN << <<"g", "1">> >> ELSE <<>>)
     \o (IF whiteHome /\ includes(castling, "Q")
            /\ isEmpty(b, "d", 1) /\ isEmpty(b, "c", 1) /\ isEmpty(b, "b", 1)
            /\ ~isAttacked(b, "e", 1, "black")
            /\ ~isAttacked(b, "c", 1, "black")
         THEN << <<"c", "1">> >> ELSE <<>>)
     \o (IF blackHome /\ includes(castling, "k")
            /\ isEmpty(b, "f", 8) /\ isEmpty(b, "g", 8)
            /\ ~isAttacked(b, "e", 8, "white")
            /\ ~isAttacked(b, "g", 8, "white")
         THEN << <<"g", "8">> >> ELSE <<>>)
     \o (IF blackHome /\ includes(castling, "q")
            /\ isEmpty(b, "d", 8) /\ isEmpty(b, "c", 8) /\ isEmpty(b, "b", 8)
            /\ ~isAttacked(b, "e", 8, "white")
            /\ ~isAttacked(b, "c", 8, "white")
         THEN << <<"c", "8">> >> ELSE <<>>)

\* getCastlingMoves with one test of the rights for both sides of a colour:
\* any white letter enables both white castlings, any black letter both black
getCastlingMoves_SharedRight(b, square, color, fen) ==
    LET parts == split(fen, " ")
        castling == IF Len(parts) >= 3 THEN parts[3] ELSE <<>>
        whiteRight == includes(castling, "K") \/ includes(castling, "Q")
        blackRight == includes(castling, "k") \/ includes(castling, "q")
        whiteHome == color = "white" /\ square.file = "e" /\ square.rank = 1
        blackHome == color = "black" /\ square.file = "e" /\ square.rank = 8
    IN  (IF whiteHome /\ whiteRight
            /\ isEmpty(b, "f", 1) /\ isEmpty(b, "g", 1)
            /\ ~isAttacked(b, "e", 1, "black")
            /\ ~isAttacked(b, "f", 1, "black")
            /\ ~isAttacked(b, "g", 1, "black")
         THEN << <<"g", "1">> >> ELSE <<>>)
     \o (IF whiteHome /\ whiteRight
            /\ isEmpty(b, "d", 1) /\ isEmpty(b, "c", 1) /\ isEmpty(b, "b", 1)
            /\ ~isAttacked(b, "e", 1, "black")
            /\ ~isAttacked(b, "d", 1, "black")
            /\ ~isAttacked(b, "c", 1, "black")
         THEN << <<"c", "1">> >> ELSE <<>>)
     \o (IF blackHome /\ blackRight
            /\ isEmpty(b, "f", 8) /\ isEmpty(b, "g", 8)
            /\ ~isAttacked(b, "e", 8, "white")
            /\ ~isAttacked(b, "f", 8, "white")
            /\ ~isAttacked(b, "g", 8, "white")
         THEN << <<"g", "8">> >> ELSE <<>>)
     \o (IF blackHome /\ blackRight
            /\ isEmpty(b, "d", 8) /\ isEmpty(b, "c", 8) /\ isEmpty(b, "b", 8)
            /\ ~isAttacked(b, "e", 8, "white")
            /\ ~isAttacked(b, "d", 8, "white")
            /\ ~isAttacked(b, "c", 8, "white")
         THEN << <<"c", "8">> >> ELSE <<>>)

\* getCastlingMoves without the test that the king stands on its home square
getCastlingMoves_AnyOrigin(b, square, color, fen) ==
    LET parts == split(fen, " ")
        castling == IF Len(parts) >= 3 THEN parts[3] ELSE <<>>
        whiteHome == color = "white"
        blackHome == color = "black"
    IN  (IF whiteHome /\ includes(castling, "K")
            /\ isEmpty(b, "f", 1) /\ isEmpty(b, "g", 1)
            /\ ~isAttacked(b, "e", 1, "black")
            /\ ~isAttacked(b, "f", 1, "black")
            /\ ~isAttacked(b, "g", 1, "black")
         THEN << <<"g", "1">> >> ELSE <<>>)
     \o (IF whiteHome /\ includes(castling, "Q")
            /\ isEmpty(b, "d", 1) /\ isEmpty(b, "c", 1) /\ isEmpty(b, "b", 1)
            /\ ~isAttacked(b, "e", 1, "black")
            /\ ~isAttacked(b, "d", 1, "black")
            /\ ~isAttacked(b, "c", 1, "black")
         THEN << <<"c", "1">> >> ELSE <<>>)
     \o (IF blackHome /\ includes(castling, "k")
            /\ isEmpty(b, "f", 8) /\ isEmpty(b, "g", 8)
            /\ ~isAttacked(b, "e", 8, "white")
            /\ ~isAttacked(b, "f", 8, "white")
            /\ ~isAttacked(b, "g", 8, "white")
         THEN << <<"g", "8">> >> ELSE <<>>)
     \o (IF blackHome /\ includes(castling, "q")
            /\ isEmpty(b, "d", 8) /\ isEmpty(b, "c", 8) /\ isEmpty(b, "b", 8)
            /\ ~isAttacked(b, "e", 8, "white")
            /\ ~isAttacked(b, "d", 8, "white")
            /\ ~isAttacked(b, "c", 8, "white")
         THEN << <<"c", "8">> >> ELSE <<>>)

\* getCastlingMoves that also asks for a rook of the king's colour on the
\* corner square
getCastlingMoves_RookNeeded(b, square, color, fen) ==
    LET parts == split(fen, " ")
        castling == IF Len(parts) >= 3 THEN parts[3] ELSE <<>>
        whiteHome == color = "white" /\ square.file = "e" /\ square.rank = 1
        blackHome == color = "black" /\ square.file = "e" /\ square.rank = 8
        rookOn(file, rank) ==
            getSquare(b, file, rank).piece = [type |-> "rook", color |-> color]
    IN  (IF whiteHome /\ includes(castling, "K") /\ rookOn("h", 1)
            /\ isEmpty(b, "f", 1) /\ isEmpty(b, "g", 1)
            /\ ~isAttacked(b, "e", 1, "black")
            /\ ~isAttacked(b, "f", 1, "black")
            /\ ~isAttacked(b, "g", 1, "black")
         THEN << <<"g", "1">> >> ELSE <<>>)
     \o (IF whiteHome /\ includes(castling, "Q") /\ rookOn("a", 1)
            /\ isEmpty(b, "d", 1) /\ isEmpty(b, "c", 1) /\ isEmpty(b, "b", 1)
            /\ ~isAttacked(b, "e", 1, "black")
            /\ ~isAttacked(b, "d", 1, "black")
            /\ ~isAttacked(b, "c", 1, "black")
         THEN << <<"c", "1">> >> ELSE <<>>)
     \o (IF blackHome /\ includes(castling, "k") /\ rookOn("h", 8)
            /\ isEmpty(b, "f", 8) /\ isEmpty(b, "g", 8)
            /\ ~isAttacked(b, "e", 8, "white")
            /\ ~isAttacked(b, "f", 8, "white")
            /\ ~isAttacked(b, "g", 8, "white")
         THEN << <<"g", "8">> >> ELSE <<>>)
     \o (IF blackHome /\ includes(castling, "q") /\ rookOn("a", 8)
            /\ isEmpty(b, "d", 8) /\ isEmpty(b, "c", 8) /\ isEmpty(b, "b", 8)
            /\ ~isAttacked(b, "e", 8, "white")
            /\ ~isAttacked(b, "d", 8, "white")
            /\ ~isAttacked(b, "c", 8, "white")
         THEN << <<"c", "8">> >> ELSE <<>>)

getCastlingMoves(b, square, color, fen) ==
    LET parts == split(fen, " ")
        castling == IF Len(parts) >= 3 THEN parts[3] ELSE <<>>
        whiteHome == color = "white" /\ square.file = "e" /\ square.rank = 1
        blackHome == color = "black" /\ square.file = "e" /\ square.rank = 8
    IN  (IF whiteHome /\ includes(castling, "K")
            /\ isEmpty(b, "f", 1) /\ isEmpty(b, "g", 1)
            /\ ~isAttacked(b, "e", 1, "black")
            /\ ~isAttacked(b, "f", 1, "black")
            /\ ~isAttacked(b, "g", 1, "black")
         THEN << <<"g", "1">> >> ELSE <<>>)
     \o (IF whiteHome /\ includes(castling, "Q")
            /\ isEmpty(b, "d", 1) /\ isEmpty(b, "c", 1) /\ isEmpty(b, "b", 1)
            /\ ~isAttacked(b, "e", 1, "black")
            /\ ~isAttacked(b, "d", 1, "black")
            /\ ~isAttacked(b, "c", 1, "black")
         THEN << <<"c", "1">> >> ELSE <<>>)
     \o (IF blackHome /\ includes(castling, "k")
            /\ isEmpty(b, "f", 8) /\ isEmpty(b, "g", 8)
            /\ ~isAttacked(b, "e", 8, "white")
            /\ ~isAttacked(b, "f", 8, "white")
            /\ ~isAttacked(b, "g", 8, "white")
         THEN << <<"g", "8">> >> ELSE <<>>)
     \o (IF blackHome /\ includes(castling, "q")
            /\ isEmpty(b, "d", 8) /\ isEmpty(b, "c", 8) /\ isEmpty(b, "b", 8)
            /\ ~isAttacked(b, "e", 8, "white")
            /\ ~isAttacked(b, "d", 8, "white")
            /\ ~isAttacked(b, "c", 8, "white")
         THEN << <<"c", "8">> >> ELSE <<>>)

getKingMoves(b, square, color, fen) ==
    LET fileIdx == indexOf(square.file)
        rankIdx == square.rank
    IN concat([k \in 1..8 |->
                 stepTo(b, fileIdx + kingSteps[k][1], rankIdx + kingSteps[k][2], color)])
       \o (IF Len(fen) > 0 THEN getCastlingMoves(b, square, color, fen) ELSE <<>>)

\* getPossibleMoves with the queen's case falling into the bishop's
getPossibleMoves_QueenAsBishop(b, square, fen) ==
    IF ~hasPiece(square) THEN <<>>
    ELSE LET type == square.piece.type
             color == square.piece.color
         IN CASE type = "bishop" -> getBishopMoves(b, square, color)
              [] type = "knight" -> getKnightMoves(b, square, color)
              [] type = "pawn" -> getPawnMoves(b, square, color)
              [] type = "queen" -> getBishopMoves(b, square, color)
              [] type = "king" -> getKingMoves(b, square, color, fen)
              [] type = "rook" -> getRookMoves(b, square, color)
              [] OTHER -> <<>>

getPossibleMoves(b, square, fen) ==
    IF ~hasPiece(square) THEN <<>>
    ELSE LET type == square.piece.type
             color == square.piece.color
         IN CASE type = "bishop" -> getBishopMoves(b, square, color)
              [] type = "knight" -> getKnightMoves(b, square, color)
              [] type = "pawn" -> getPawnMoves(b, square, color)
              [] type = "queen" -> getQueenMoves(b, square, color)
              [] type = "king" -> getKingMoves(b, square, color, fen)
              [] type = "rook" -> getRookMoves(b, square, color)
              [] OTHER -> <<>>

\* isAttacked scanning the pieces of the colour under attack instead of the
\* attacker's
isAttacked_OwnColor(b, file, rank, color) ==
    \E i \in 1..Len(b) : \E j \in 1..Len(b[i]) :
        /\ hasPiece(b[i][j])
        /\ b[i][j].piece.color # color
        /\ includes(getPossibleMoves(b, b[i][j], <<>>), squareId(file, rank))

\* isAttacked that also counts the two squares diagonally in front of a
\* pawn, whatever stands on them
isAttacked_PawnDiagonals(b, file, rank, color) ==
    \E i \in 1..Len(b) : \E j \in 1..Len(b[i]) :
        /\ hasPiece(b[i][j])
        /\ b[i][j].piece.color = color
        /\ \/ includes(getPossibleMoves(b, b[i][j], <<>>), squareId(file, rank))
           \/ /\ b[i][j].piece.type = "pawn"
              /\ rank = b[i][j].rank + (IF color = "white" THEN 1 ELSE -1)
              /\ indexOf(file) - indexOf(b[i][j].file) \in {1, -1}

\* the scan of every square of the board; the inner call passes no fen
isAttacked(b, file, rank, color) ==
    \E i \in 1..Len(b) : \E j \in 1..Len(b[i]) :
        /\ hasPiece(b[i][j])
        /\ b[i][j].piece.color = color
        /\ includes(getPossibleMoves(b, b[i][j], <<>>), squareId(file, rank))

-----------------------------------------------------------------------------
(* The calls nested in one call of getPossibleMoves.                       *)

MaxNesting == 4

\* the fen that isAttacked hands to getPossibleMoves, carried on
nestedFen_Forwarded(fen) == fen

\* the fen that isAttacked hands to getPossibleMoves: none
nestedFen(fen) == <<>>

\* getCastlingMoves gets as far as a call of isAttacked: the king is on its
\* home square and, for one side, the letter is there and the squares empty
reachesScan(b, square, color, fen) ==
    LET parts == split(fen, " ")
        castling == IF Len(parts) >= 3 THEN parts[3] ELSE <<>>
        rank == IF color = "white" THEN 1 ELSE 8
        kingside == IF color = "white" THEN "K" ELSE "k"
        queenside == IF color = "white" THEN "Q" ELSE "q"
    IN /\ square.file = "e" /\ square.rank = rank
       /\ \/ /\ includes(castling, kingside)
             /\ isEmpty(b, "f", rank) /\ isEmpty(b, "g", rank)
          \/ /\ includes(castling, queenside)
             /\ isEmpty(b, "d", rank) /\ isEmpty(b, "c", rank) /\ isEmpty(b, "b", rank)

\* How deep the calls of getPossibleMoves nest below the call for square
\* with fen, this call counted, followed no further than fuel calls:
\* getKingMoves enters getCastlingMoves when fen is given, its isAttacked
\* calls scan the pieces of the other colour, and each scanned piece is a
\* call of getPossibleMoves with nestedFen.
RECURSIVE callNesting(_, _, _, _)
callNesting(b, square, fen, fuel) ==
    IF fuel = 0 THEN 0
    ELSE IF ~hasPiece(square) \/ square.piece.type # "king" \/ Len(fen) = 0 THEN 1
    ELSE IF ~reachesScan(b, square, square.piece.color, fen) THEN 1
    ELSE LET scanned == {ij \in (1..Len(b)) \X (1..8) :
                            /\ ij[2] <= Len(b[ij[1]])
                            /\ hasPiece(b[ij[1]][ij[2]])
                            /\ b[ij[1]][ij[2]].piece.color # square.piece.color}
             below == {callNesting(b, b[ij[1]][ij[2]], nestedFen(fen), fuel - 1) :
                          ij \in scanned} \cup {0}
         IN 1 + (CHOOSE n \in below : \A m \in below : m <= n)

-----------------------------------------------------------------------------
(* The board after a call: the generator reads the board through getSquare *)
(* and pushes to local lists; no statement assigns to a square.            *)

\* the board after a getPossibleMoves that lifts the piece off its origin
\* while it looks for destinations and does not put it back
boardAfterMoves_Lifted(b, square, fen) ==
    IF getPossibleMoves(b, square, fen) = <<>> THEN b
    ELSE [i \in 1..Len(b) |-> [j \in 1..Len(b[i]) |->
            IF b[i][j].file = square.file /\ b[i][j].rank = square.rank
            THEN [b[i][j] EXCEPT !.piece = Null] ELSE b[i][j]]]

\* the board after getPossibleMoves(b, square, fen)
boardAfterMoves(b, square, fen) == b

\* the board after isAttacked(b, file, rank, color): its calls of
\* getPossibleMoves one after the other
boardAfterAttack(b, file, rank, color) ==
    LET scanned == {ij \in (1..Len(b)) \X (1..8) :
                       /\ ij[2] <= Len(b[ij[1]])
                       /\ hasPiece(b[ij[1]][ij[2]])
                       /\ b[ij[1]][ij[2]].piece.color = color}
    IN IF \A ij \in scanned : boardAfterMoves(b, b[ij[1]][ij[2]], <<>>) = b
       THEN b
       ELSE boardAfterMoves(b, b[(CHOOSE ij \in scanned :
                                     boardAfterMoves(b, b[ij[1]][ij[2]], <<>>) # b)[1]]
                                  [(CHOOSE ij \in scanned :
                                     boardAfterMoves(b, b[ij[1]][ij[2]], <<>>) # b)[2]], <<>>)

-----------------------------------------------------------------------------
(* Inputs of the move generator: base positions, each with at most         *)
(* MaxExtra squares overwritten, and the fen arguments.                    *)

MaxExtra == 1

StartPlacement == <<"r","n","b","q","k","b","n","r","/","p","p","p","p","p","p","p","p","/","8","/","8","/","8","/","8","/","P","P","P","P","P","P","P","P","/","R","N","B","Q","K","B","N","R">>
EmptyPlacement == <<"8","/","8","/","8","/","8","/","8","/","8","/","8","/","8">>
CastlePlacement == <<"r","3","k","2","r","/","8","/","8","/","8","/","8","/","8","/","8","/","R","3","K","2","R">>
RookE8Placement == <<"4","r","3","/","8","/","8","/","8","/","8","/","8","/","8","/","8">>

BasePlacements ==
    {StartPlacement, EmptyPlacement, CastlePlacement, RookE8Placement}

BaseBoards == {parseFEN(p).board : p \in BasePlacements}

\* the third field of the fen argument
RightsFields == {<<"K","Q","k","q">>, <<"-">>, <<"K","q">>, <<"Q","k">>}

fenOf(placement, side, castling) ==
    placement \o <<" ", side, " ">> \o castling \o <<" ", "-", " ", "0", " ", "1">>

\* The third fields tried for an origin square (<<>>: the call gives no
\* fen). getPossibleMoves hands fen to getKingMoves alone, so every rights
\* field is tried for a king and one fen (besides none) for the other pieces.
RightsFor(sq) ==
    IF ~hasPiece(sq) THEN {<<>>}
    ELSE IF sq.piece.type = "king" THEN {<<>>} \cup RightsFields
    ELSE {<<>>, <<"K","Q","k","q">>}

\* the fen argument of the call: its placement field is not read by the
\* move generator
fenFor(r) == IF r = <<>> THEN <<>> ELSE fenOf(EmptyPlacement, "w", r)

\* the squares isAttacked is asked about: the kings' paths
AttackTargets ==
    {<<f, r>> : f \in {"c", "d", "e", "f", "g"}, r \in {1, 8}}
        \cup {<<"e", 4>>, <<"e", 5>>}

InitMoves ==
    /\ board \in BaseBoards
    /\ extras = 0
    /\ op = "none"
    /\ origin = NoSquare
    /\ fenArg = <<>>
    /\ rights = <<>>
    /\ moves = <<>>
    /\ target = <<"a", 0>>
    /\ byColor = "white"
    /\ attacked = FALSE
    /\ boardAfter = board
    /\ IdleCodec
    /\ IdlePage
    /\ IdleClick
    /\ IdleTimer

\* overwrite one square of the position with a piece, or clear it
PlacePiece ==
    /\ op = "none"
    /\ extras < MaxExtra
    /\ \E i \in 1..8, j \in 1..8, p \in Pieces \cup {Null} :
          /\ board[i][j].piece # p
          /\ board' = [board EXCEPT ![i][j].piece = p]
    /\ extras' = extras + 1
    /\ boardAfter' = board'
    /\ UNCHANGED <<op, origin, fenArg, rights, moves, target, byColor, attacked>>
    /\ UNCHANGED <<codecVars, pageVars, clickVars, timerVars>>

\* the empty squares getPossibleMoves is asked about
EmptyOrigins == {<<"d", 4>>, <<"e", 4>>, <<"d", 5>>, <<"e", 5>>}

\* getPossibleMoves(board, square, fen) for a square of the board: one that
\* holds a piece, or an empty one of EmptyOrigins
CallGetPossibleMoves ==
    /\ op = "none"
    /\ \E i \in 1..8, j \in 1..8 : \E r \in RightsFor(board[i][j]) :
          /\ hasPiece(board[i][j]) \/ <<board[i][j].file, board[i][j].rank>> \in EmptyOrigins
          /\ origin' = board[i][j]
          /\ rights' = r
          /\ fenArg' = fenFor(r)
          /\ moves' = getPossibleMoves(board, board[i][j], fenFor(r))
          /\ boardAfter' = boardAfterMoves(board, board[i][j], fenFor(r))
    /\ op' = "moves"
    /\ UNCHANGED <<board, extras, target, byColor, attacked>>
    /\ UNCHANGED <<codecVars, pageVars, clickVars, timerVars>>

\* isAttacked(board, file, rank, byColor)
CallIsAttacked ==
    /\ op = "none"
    /\ \E t \in AttackTargets, c \in Colors :
          /\ target' = t
          /\ byColor' = c
          /\ attacked' = isAttacked(board, t[1], t[2], c)
          /\ boardAfter' = boardAfterAttack(board, t[1], t[2], c)
    /\ op' = "attack"
    /\ UNCHANGED <<board, extras, origin, fenArg, rights, moves>>
    /\ UNCHANGED <<codecVars, pageVars, clickVars, timerVars>>

NextMoves == PlacePiece \/ CallGetPossibleMoves \/ CallIsAttacked

SpecMoves == InitMoves /\ [][NextMoves]_vars

-----------------------------------------------------------------------------
(* The side to move of an exchange string.                                 *)

\* turnFromFen of the page and of the ChessBoard wrapper: white when no
\* string is given
turnFromFen(fen) ==
    IF fen = <<>> THEN "white"
    ELSE LET parts == split(fen, " ")
         IN IF Len(parts) >= 2 /\ parts[2] = <<"w">> THEN "white" ELSE "black"

\* turnFromFen of ChessGround: no test of the string
turnFromFen2(f) ==
    LET parts == split(f, " ")
    IN IF Len(parts) >= 2 /\ parts[2] = <<"w">> THEN "white" ELSE "black"

-----------------------------------------------------------------------------
(* Inputs of the board codec: exchange strings made of a placement and the *)
(* fields after it, with at most MaxEdits characters of the placement      *)
(* replaced.                                                               *)

MaxEdits == 1

\* the fields after the placement: six fields in all, five, or the
\* placement alone
CodecTails ==
    {<<" ","w"," ","K","Q","k","q"," ","-"," ","0"," ","1">>,
     <<" ","b"," ","-"," ","-"," ","0"," ","1">>,
     <<" ","w"," ","K","Q","k","q"," ","-"," ","0">>,
     <<>>}

CodecPlacements == {StartPlacement, CastlePlacement, EmptyPlacement}

\* the characters written over a character of the placement: a letter that
\* names no piece, a digit out of 1..8, a separator and a piece letter
EditChars == {"x", "9", "/", "Q"}

\* index of the first space of s, Len(s) + 1 when it has none
firstSpace(s) ==
    IF \E i \in 1..Len(s) : s[i] = " "
    THEN CHOOSE i \in 1..Len(s) : s[i] = " " /\ \A j \in 1..(i - 1) : s[j] # " "
    ELSE Len(s) + 1

InitCodec ==
    /\ codecIn \in {p \o t : p \in CodecPlacements, t \in CodecTails} \cup {<<>>}
    /\ codecEdits = 0
    /\ codecOp = "none"
    /\ decoded = <<>>
    /\ turn = "none"
    /\ IdleMoves
    /\ IdlePage
    /\ IdleClick
    /\ IdleTimer

\* one character of the placement field is replaced
EditPlacement ==
    /\ codecOp = "none"
    /\ codecEdits < MaxEdits
    /\ \E k \in 1..(firstSpace(codecIn) - 1), c \in EditChars :
          /\ codecIn[k] # c
          /\ codecIn' = [codecIn EXCEPT ![k] = c]
    /\ codecEdits' = codecEdits + 1
    /\ UNCHANGED <<codecOp, decoded, turn>>
    /\ UNCHANGED <<movesVars, pageVars, clickVars, timerVars>>

\* ChessService.parseFEN(fen), first version
CallParseFEN ==
    /\ codecOp = "none"
    /\ decoded' = parseFEN(codecIn)
    /\ codecOp' = "parseFEN"
    /\ UNCHANGED <<codecIn, codecEdits, turn>>
    /\ UNCHANGED <<movesVars, pageVars, clickVars, timerVars>>

\* ChessService.parseFEN(fen), second version
CallParseFEN2 ==
    /\ codecOp = "none"
    /\ decoded' = parseFEN2(codecIn)
    /\ codecOp' = "parseFEN2"
    /\ UNCHANGED <<codecIn, codecEdits, turn>>
    /\ UNCHANGED <<movesVars, pageVars, clickVars, timerVars>>

\* turnFromFen(fen) of the page
CallTurnFromFen ==
    /\ codecOp = "none"
    /\ turn' = turnFromFen(codecIn)
    /\ codecOp' = "turnFromFen"
    /\ UNCHANGED <<codecIn, codecEdits, decoded>>
    /\ UNCHANGED <<movesVars, pageVars, clickVars, timerVars>>

\* turnFromFen(f) of ChessGround
CallTurnFromFen2 ==
    /\ codecOp = "none"
    /\ turn' = turnFromFen2(codecIn)
    /\ codecOp' = "turnFromFen2"
    /\ UNCHANGED <<codecIn, codecEdits, decoded>>
    /\ UNCHANGED <<movesVars, pageVars, clickVars, timerVars>>

NextCodec ==
    \/ EditPlacement
    \/ CallParseFEN
    \/ CallParseFEN2
    \/ CallTurnFromFen
    \/ CallTurnFromFen2

SpecCodec == InitCodec /\ [][NextCodec]_vars

-----------------------------------------------------------------------------
(* The game page: the handlers of the board's select and move events, the  *)
(* promotion dialog and the move requests, in the page (+page.svelte) and  *)
(* in the ChessBoard wrapper.                                              *)

START_FEN == fenOf(StartPlacement, "w", <<"K","Q","k","q">>)

NoPromotion == [from |-> <<>>, to |-> <<>>]
NoEvent == [kind |-> "none", from |-> <<>>, to |-> <<>>, outcome |-> "none", move |-> <<>>]

\* s[k] of a JavaScript string, 0-based; undefined past the end
charAt(s, k) == IF k + 1 \in 1..Len(s) THEN s[k + 1] ELSE "undefined"

isPawnPromotion(from, to) ==
    IF from = <<>> \/ to = <<>> THEN FALSE
    ELSE LET fromRank == parseInt(charAt(from, 1))
             toRank == parseInt(charAt(to, 1))
         IN (fromRank = 7 /\ toRank = 8) \/ (fromRank = 2 /\ toRank = 1)

\* the first square, rows then columns, whose `${file}${rank}` is id
findSquareById(b, id) ==
    LET hits == {ij \in {<<i, j>> : i \in 1..Len(b), j \in 1..8} :
                    /\ ij[2] <= Len(b[ij[1]])
                    /\ squareId(b[ij[1]][ij[2]].file, b[ij[1]][ij[2]].rank) = id}
    IN IF hits = {} THEN NoSquare
       ELSE LET first == CHOOSE ij \in hits : \A o \in hits :
                            ij[1] < o[1] \/ (ij[1] = o[1] /\ ij[2] <= o[2])
            IN b[first[1]][first[2]]

\* $gameStore.currentGame?.fen ?? START_FEN
currentFen == IF hasGame THEN gameFen ELSE START_FEN

\* the body of getPossibleMovesForSquare for the exchange string fen
movesForSquare(fen, id) ==
    LET b == parseFEN(fen).board
        square == findSquareById(b, id)
        toMove == turnFromFen(fen)
    IN IF square = NoSquare THEN <<>>
       ELSE IF ~hasPiece(square) \/ square.piece.color # toMove THEN <<>>
       ELSE getPossibleMoves(b, square, fen)

promotionLetters(piece) ==
    CASE piece = "queen" -> "q"
      [] piece = "rook" -> "r"
      [] piece = "bishop" -> "b"
      [] piece = "knight" -> "n"

\* playerMove of makeMove / submitMove
playerMove(from, to, promotion) ==
    IF promotion = "null" THEN from \o to
    ELSE from \o to \o <<promotionLetters(promotion)>>

\* ---- inputs of the page: the positions the backend answers with, the ----
\* ---- squares the board reports, the requests in flight               ----

MaxInflight == 2
MaxCreating == 1

AfterE4Placement == <<"r","n","b","q","k","b","n","r","/","p","p","p","p","p","p","p","p","/","8","/","8","/","4","P","3","/","8","/","P","P","P","P","1","P","P","P","/","R","N","B","Q","K","B","N","R">>
PromotionPlacement == <<"1","r","2","k","3","/","P","6","R","/","8","/","8","/","8","/","8","/","8","/","4","K","3">>

PageFens ==
    {START_FEN,
     fenOf(AfterE4Placement, "b", <<"K","Q","k","q">>),
     fenOf(PromotionPlacement, "w", <<"-">>)}

PageSquares ==
    {<<"e","2">>, <<"e","4">>, <<"a","7">>, <<"a","8">>, <<"h","7">>, <<"h","8">>}

PromotionPieces == {"queen", "rook", "bishop", "knight"}

\* The values the handlers compute from the current exchange string, for
\* each string and square of the inputs (evaluated once per string).
squareTable == [fen \in PageFens |-> [id \in PageSquares |->
                   findSquareById(parseFEN(fen).board, id)]]
movesTable == [fen \in PageFens |-> [id \in PageSquares |-> movesForSquare(fen, id)]]
turnTable == [fen \in PageFens |-> turnFromFen(fen)]

getPossibleMovesForSquare(id) == movesTable[currentFen][id]

InitPage ==
    /\ component \in {"page", "board"}
    /\ hasGame = FALSE
    /\ gameFen = <<>>
    /\ selectedSquare = <<>>
    /\ possibleMoves = <<>>
    /\ lastSelectedFrom = <<>>
    /\ lastSelectedDests = <<>>
    /\ pendingPromotion = NoPromotion
    /\ loading = FALSE
    /\ inflight = 0
    /\ promoting = 0
    /\ creating = 0
    /\ lastEvent = NoEvent
    /\ IdleMoves
    /\ IdleCodec
    /\ IdleClick
    /\ IdleTimer

\* startNewGame up to its await: the createGame request leaves
startNewGame ==
    /\ creating < MaxCreating
    /\ loading' = TRUE
    /\ creating' = creating + 1
    /\ lastEvent' = NoEvent
    /\ UNCHANGED <<component, hasGame, gameFen, selectedSquare, possibleMoves, lastSelectedFrom, lastSelectedDests, pendingPromotion, inflight, promoting>>
    /\ UNCHANGED <<movesVars, codecVars, clickVars, timerVars>>

\* startNewGame after its await: setCurrentGame(game), or the catch branch
GameCreated ==
    /\ creating > 0
    /\ \/ \E fen \in PageFens :
             /\ hasGame' = TRUE
             /\ gameFen' = fen
       \/ UNCHANGED <<hasGame, gameFen>>
    /\ loading' = FALSE
    /\ creating' = creating - 1
    /\ lastEvent' = NoEvent
    /\ UNCHANGED <<component, selectedSquare, possibleMoves, lastSelectedFrom, lastSelectedDests, pendingPromotion, inflight, promoting>>
    /\ UNCHANGED <<movesVars, codecVars, clickVars, timerVars>>

\* resetGame: gameActions.clearGame()
resetGame ==
    /\ hasGame
    /\ hasGame' = FALSE
    /\ gameFen' = <<>>
    /\ lastEvent' = NoEvent
    /\ UNCHANGED <<component, selectedSquare, possibleMoves, lastSelectedFrom, lastSelectedDests, pendingPromotion, loading, inflight, promoting, creating>>
    /\ UNCHANGED <<movesVars, codecVars, clickVars, timerVars>>

\* on:select of the page
onSelectFromBoard ==
    /\ component = "page"
    /\ \E from \in PageSquares :
          LET fen == currentFen
              toMove == turnTable[fen]
              sq == squareTable[fen][from]
          IN /\ selectedSquare' = from
             /\ IF sq = NoSquare \/ ~hasPiece(sq)
                THEN /\ possibleMoves' = <<>>
                     /\ UNCHANGED <<lastSelectedFrom, lastSelectedDests>>
                ELSE IF sq.piece.color # toMove
                THEN /\ possibleMoves' = <<>>
                     /\ UNCHANGED <<lastSelectedFrom, lastSelectedDests>>
                ELSE /\ possibleMoves' = getPossibleMovesForSquare(from)
                     /\ lastSelectedFrom' = from
                     /\ lastSelectedDests' = getPossibleMovesForSquare(from)
    /\ lastEvent' = NoEvent
    /\ UNCHANGED <<component, hasGame, gameFen, pendingPromotion, loading, inflight, promoting, creating>>
    /\ UNCHANGED <<movesVars, codecVars, clickVars, timerVars>>

\* on:select of the ChessBoard wrapper
onSelectFromBoard_board ==
    /\ component = "board"
    /\ \E from \in PageSquares :
          /\ lastSelectedFrom' = from
          /\ possibleMoves' = getPossibleMovesForSquare(from)
    /\ lastEvent' = NoEvent
    /\ UNCHANGED <<component, hasGame, gameFen, selectedSquare, lastSelectedDests, pendingPromotion, loading, inflight, promoting, creating>>
    /\ UNCHANGED <<movesVars, codecVars, clickVars, timerVars>>

\* The branch onMoveFromBoard takes for the event (from, to): "guard", "turn"
\* and "allowed" are the three blocked branches, "promotion" opens the dialog
\* and "submit" calls makeMove.
moveVerdict_CacheOnly(from, to) ==
    IF component = "page"
          /\ (lastSelectedFrom # from \/ ~includes(lastSelectedDests, to))
    THEN "guard"
    ELSE IF turnTable[currentFen] # "white" THEN "turn"
    ELSE IF component = "board" /\ ~includes(getPossibleMovesForSquare(from), to)
    THEN "allowed"
    ELSE IF isPawnPromotion(from, to)
            /\ (component = "board" =>
                   squareTable[currentFen][from].piece.type = "pawn")
    THEN "promotion"
    ELSE "submit"

moveVerdict(from, to) ==
    IF component = "page"
          /\ (lastSelectedFrom # from \/ ~includes(lastSelectedDests, to))
    THEN "guard"
    ELSE IF turnTable[currentFen] # "white" THEN "turn"
    ELSE IF ~includes(getPossibleMovesForSquare(from), to) THEN "allowed"
    ELSE IF isPawnPromotion(from, to)
            /\ (component = "board" =>
                   squareTable[currentFen][from].piece.type = "pawn")
    THEN "promotion"
    ELSE "submit"

\* on:move of the page and of the wrapper. A blocked move resets the board
\* to the current position (the page also drops its cache); the awaits of
\* the handler are on values computed in place, so it runs to the request
\* without another event in between.
onMoveFromBoard ==
    /\ \E from \in PageSquares, to \in PageSquares :
          /\ from # to
          /\ LET verdict == moveVerdict(from, to)
             IN CASE verdict \in {"guard", "turn", "allowed"} ->
                      /\ lastEvent' = [kind |-> "move", from |-> <<>>, to |-> <<>>,
                                       outcome |-> "reset", move |-> <<>>]
                      /\ IF component = "page"
                         THEN lastSelectedFrom' = <<>> /\ lastSelectedDests' = <<>>
                         ELSE UNCHANGED <<lastSelectedFrom, lastSelectedDests>>
                      /\ UNCHANGED <<pendingPromotion, loading, inflight>>
                  [] verdict = "promotion" ->
                      /\ pendingPromotion' = [from |-> from, to |-> to]
                      /\ lastEvent' = [kind |-> "move", from |-> from, to |-> to,
                                       outcome |-> "promotion", move |-> <<>>]
                      /\ UNCHANGED <<lastSelectedFrom, lastSelectedDests, loading, inflight>>
                  [] verdict = "submit" /\ ~hasGame ->
                      /\ lastEvent' = [kind |-> "move", from |-> from, to |-> to,
                                       outcome |-> "nogame", move |-> <<>>]
                      /\ UNCHANGED <<lastSelectedFrom, lastSelectedDests, pendingPromotion, loading, inflight>>
                  [] verdict = "submit" /\ hasGame ->
                      /\ inflight < MaxInflight
                      /\ loading' = TRUE
                      /\ inflight' = inflight + 1
                      /\ lastEvent' = [kind |-> "move", from |-> from, to |-> to,
                                       outcome |-> "request",
                                       move |-> playerMove(from, to, "null")]
                      /\ UNCHANGED <<lastSelectedFrom, lastSelectedDests, pendingPromotion>>
    /\ UNCHANGED <<component, hasGame, gameFen, selectedSquare, possibleMoves, promoting, creating>>
    /\ UNCHANGED <<movesVars, codecVars, clickVars, timerVars>>

\* on:promote. The page awaits makeMove and clears pendingPromotion after
\* it; the wrapper clears it at once.
onPromote ==
    /\ pendingPromotion # NoPromotion
    /\ \E piece \in PromotionPieces :
          IF ~hasGame
          THEN /\ pendingPromotion' = NoPromotion
               /\ lastEvent' = [kind |-> "promote", from |-> pendingPromotion.from,
                                to |-> pendingPromotion.to, outcome |-> "nogame",
                                move |-> <<>>]
               /\ UNCHANGED <<loading, inflight, promoting>>
          ELSE /\ inflight < MaxInflight
               /\ loading' = TRUE
               /\ inflight' = inflight + 1
               /\ lastEvent' = [kind |-> "promote", from |-> pendingPromotion.from,
                                to |-> pendingPromotion.to, outcome |-> "request",
                                move |-> playerMove(pendingPromotion.from,
                                                    pendingPromotion.to, piece)]
               /\ IF component = "page"
                  THEN promoting' = promoting + 1 /\ UNCHANGED pendingPromotion
                  ELSE pendingPromotion' = NoPromotion /\ UNCHANGED promoting
    /\ UNCHANGED <<component, hasGame, gameFen, selectedSquare, possibleMoves, lastSelectedFrom, lastSelectedDests, creating>>
    /\ UNCHANGED <<movesVars, codecVars, clickVars, timerVars>>

\* on:cancel of the promotion dialog
onCancel ==
    /\ pendingPromotion # NoPromotion
    /\ pendingPromotion' = NoPromotion
    /\ lastEvent' = NoEvent
    /\ UNCHANGED <<component, hasGame, gameFen, selectedSquare, possibleMoves, lastSelectedFrom, lastSelectedDests, loading, inflight, promoting, creating>>
    /\ UNCHANGED <<movesVars, codecVars, clickVars, timerVars>>

\* makeMove after its await: the answer of one request in flight, the
\* backend's new position (updateGameAfterMove) or an error (the catch
\* branch), then setLoading(false); an onPromote call that awaited this
\* request goes on to clear pendingPromotion
MoveAnswered ==
    /\ inflight > 0
    /\ \/ \E fen \in PageFens :
             /\ hasGame' = TRUE
             /\ gameFen' = fen
       \/ UNCHANGED <<hasGame, gameFen>>
    /\ \/ /\ promoting > 0
          /\ promoting' = promoting - 1
          /\ pendingPromotion' = NoPromotion
       \/ /\ inflight > promoting
          /\ UNCHANGED <<promoting, pendingPromotion>>
    /\ loading' = FALSE
    /\ inflight' = inflight - 1
    /\ lastEvent' = NoEvent
    /\ UNCHANGED <<component, selectedSquare, possibleMoves, lastSelectedFrom, lastSelectedDests, creating>>
    /\ UNCHANGED <<movesVars, codecVars, clickVars, timerVars>>

NextPage ==
    \/ startNewGame
    \/ GameCreated
    \/ resetGame
    \/ onSelectFromBoard
    \/ onSelectFromBoard_board
    \/ onMoveFromBoard
    \/ onPromote
    \/ onCancel
    \/ MoveAnswered

SpecPage == InitPage /\ [][NextPage]_vars

-----------------------------------------------------------------------------
(* The click-driven boards: ChessBoardSimple, whose selection lives in the *)
(* store and whose moves come from its own getRealMoves, and the ChessBoard*)
(* of squares, whose selection is local (selectedSquareId, possibleMoves)  *)
(* and whose moves come from chessMoves.ts. Both are modelled on the       *)
(* variables selectedSquare and possibleMoves.                             *)

\* file.charCodeAt(0) - 97
charCodeAt97(file) ==
    IF \E i \in 1..26 : LowerLetters[i] = file
    THEN (CHOOSE i \in 1..26 : LowerLetters[i] = file) - 1
    ELSE -1

\* board[8 - rank]?.[fileNum] || null
getSquareAt(b, file, rank) ==
    IF rank < 1 \/ rank > 8 THEN NoSquare
    ELSE LET fileNum == charCodeAt97(file)
         IN IF fileNum < 0 \/ fileNum > 7 THEN NoSquare
            ELSE IF 9 - rank > Len(b) THEN NoSquare
            ELSE IF fileNum + 1 > Len(b[9 - rank]) THEN NoSquare
            ELSE b[9 - rank][fileNum + 1]

isSquareEmpty(b, file, rank) ==
    LET square == getSquareAt(b, file, rank)
    IN IF square # NoSquare THEN ~hasPiece(square) ELSE FALSE

hasEnemyPiece(b, file, rank) ==
    LET square == getSquareAt(b, file, rank)
    IN IF square # NoSquare THEN square.piece.color = "black" ELSE FALSE

hasOurPiece(b, file, rank) ==
    LET square == getSquareAt(b, file, rank)
    IN IF square # NoSquare THEN square.piece.color = "white" ELSE FALSE

hasKingMoved(b) ==
    LET king == getSquareAt(b, "e", 1)
    IN ~hasPiece(king) \/ king.piece.type # "king"

hasRookMoved(b, file) ==
    LET rook == getSquareAt(b, file, 1)
    IN ~hasPiece(rook) \/ rook.piece.type # "rook"

canCastle(b, kingside) ==
    IF hasKingMoved(b) THEN FALSE
    ELSE IF kingside
    THEN IF hasRookMoved(b, "h") THEN FALSE
         ELSE IF ~isSquareEmpty(b, "f", 1) \/ ~isSquareEmpty(b, "g", 1) THEN FALSE
         ELSE TRUE
    ELSE IF hasRookMoved(b, "a") THEN FALSE
         ELSE IF ~isSquareEmpty(b, "b", 1) \/ ~isSquareEmpty(b, "c", 1)
                    \/ ~isSquareEmpty(b, "d", 1) THEN FALSE
         ELSE TRUE

\* one loop of the component's getRookMoves / getBishopMoves: from file
\* number f and rank r on, by (df, dr), up to the first piece
RECURSIVE realRay(_, _, _, _, _)
realRay(b, f, r, df, dr) ==
    IF r > 8 \/ r < 1 \/ f > 7 \/ f < 0 THEN <<>>
    ELSE LET newFile == fromCharCode97(f) IN
         IF isSquareEmpty(b, newFile, r)
         THEN <<squareId(newFile, r)>> \o realRay(b, f + df, r + dr, df, dr)
         ELSE IF hasEnemyPiece(b, newFile, r) THEN <<squareId(newFile, r)>>
         ELSE <<>>

\* getRookMoves(file, rank, fileNum) of ChessBoardSimple: up, down, right, left
getRealRookMoves(b, rank, fileNum) ==
    realRay(b, fileNum, rank + 1, 0, 1) \o realRay(b, fileNum, rank - 1, 0, -1)
        \o realRay(b, fileNum + 1, rank, 1, 0) \o realRay(b, fileNum - 1, rank, -1, 0)

\* getBishopMoves(file, rank, fileNum) of ChessBoardSimple
getRealBishopMoves(b, rank, fileNum) ==
    realRay(b, fileNum + 1, rank + 1, 1, 1) \o realRay(b, fileNum - 1, rank + 1, -1, 1)
        \o realRay(b, fileNum + 1, rank - 1, 1, -1) \o realRay(b, fileNum - 1, rank - 1, -1, -1)

realKnightMoves == << <<2, 1>>, <<2, -1>>, <<-2, 1>>, <<-2, -1>>,
                      <<1, 2>>, <<1, -2>>, <<-1, 2>>, <<-1, -2>> >>

realKingSteps == << <<-1, -1>>, <<-1, 0>>, <<-1, 1>>, <<0, -1>>,
                    <<0, 1>>, <<1, -1>>, <<1, 0>>, <<1, 1>> >>

\* the body of the knight's forEach and of the king's double loop
realStep(b, f, r) ==
    IF f >= 0 /\ f < 8 /\ r >= 1 /\ r <= 8
    THEN LET newFile == fromCharCode97(f)
         IN IF isSquareEmpty(b, newFile, r) \/ hasEnemyPiece(b, newFile, r)
            THEN <<squareId(newFile, r)>>
            ELSE <<>>
    ELSE <<>>

getRealMoves(b, square) ==
    LET file == square.file
        rank == square.rank
        piece == square.piece
        fileNum == charCodeAt97(file)
    IN IF piece = Null THEN <<>>
       ELSE CASE piece.type = "pawn" ->
                  (IF rank < 8 /\ isSquareEmpty(b, file, rank + 1)
                   THEN <<squareId(file, rank + 1)>>
                           \o (IF rank = 2 /\ isSquareEmpty(b, file, rank + 2)
                               THEN <<squareId(file, rank + 2)>> ELSE <<>>)
                   ELSE <<>>)
                  \o (IF fileNum > 0 /\ hasEnemyPiece(b, fromCharCode97(fileNum - 1), rank + 1)
                      THEN <<squareId(fromCharCode97(fileNum - 1), rank + 1)>> ELSE <<>>)
                  \o (IF fileNum < 7 /\ hasEnemyPiece(b, fromCharCode97(fileNum + 1), rank + 1)
                      THEN <<squareId(fromCharCode97(fileNum + 1), rank + 1)>> ELSE <<>>)
              [] piece.type = "rook" -> getRealRookMoves(b, rank, fileNum)
              [] piece.type = "bishop" -> getRealBishopMoves(b, rank, fileNum)
              [] piece.type = "queen" ->
                  getRealRookMoves(b, rank, fileNum) \o getRealBishopMoves(b, rank, fileNum)
              [] piece.type = "knight" ->
                  concat([k \in 1..8 |-> realStep(b, fileNum + realKnightMoves[k][1],
                                                  rank + realKnightMoves[k][2])])
              [] piece.type = "king" ->
                  concat([k \in 1..8 |-> realStep(b, fileNum + realKingSteps[k][1],
                                                  rank + realKingSteps[k][2])])
                  \o (IF file = "e" /\ rank = 1
                      THEN (IF canCastle(b, TRUE) THEN <<<<"g", "1">>>> ELSE <<>>)
                              \o (IF canCastle(b, FALSE) THEN <<<<"c", "1">>>> ELSE <<>>)
                      ELSE <<>>)
              [] OTHER -> <<>>

\* ---- inputs of the boards: the positions shown, the squares clicked ----

CastleReadyPlacement == <<"r","n","b","q","k","b","n","r","/","p","p","p","p","p","p","p","p","/","8","/","8","/","8","/","8","/","P","P","P","P","P","P","P","P","/","R","3","K","2","R">>

ClickFens ==
    {START_FEN,
     fenOf(AfterE4Placement, "b", <<"K","Q","k","q">>),
     fenOf(CastleReadyPlacement, "w", <<"K","Q","k","q">>)}

ClickSquares ==
    {<<"e","1">>, <<"g","1">>, <<"e","2">>, <<"d","2">>, <<"e","3">>, <<"e","4">>,
     <<"a","5">>, <<"e","7">>, <<"e","5">>}

\* the board each component shows for an exchange string: ChessBoardSimple
\* decodes with ChessService.parseFEN, the ChessBoard of squares with its
\* own parseFEN (a loop over eight rank groups)
boardOf(v, fen) == IF v = "simple" THEN parseFEN(fen).board ELSE parseFEN2(fen).board

\* the values the handlers compute, for each string and square of the
\* inputs (evaluated once per string)
clickSquareTable == [v \in {"simple", "grid"} |-> [fen \in ClickFens |-> [id \in ClickSquares |->
                        findSquareById(boardOf(v, fen), id)]]]
realMovesTable == [fen \in ClickFens |-> [id \in ClickSquares |->
                      getRealMoves(boardOf("simple", fen), clickSquareTable["simple"][fen][id])]]
gridMovesTable == [fen \in ClickFens |-> [id \in ClickSquares |->
                      getPossibleMoves(boardOf("grid", fen), clickSquareTable["grid"][fen][id], fen)]]

\* the square object the click or drag event carries
clickedSquare(id) == clickSquareTable[view][gameFen][id]

InitClick ==
    /\ view \in {"simple", "grid"}
    /\ draggedFrom = <<>>
    /\ emitted = <<>>
    /\ clicked = [handler |-> "none", square |-> <<>>, selected |-> <<>>, moves |-> <<>>, dragged |-> <<>>]
    /\ component = "page"
    /\ hasGame = TRUE
    /\ gameFen \in ClickFens
    /\ selectedSquare = <<>>
    /\ possibleMoves = <<>>
    /\ lastSelectedFrom = <<>>
    /\ lastSelectedDests = <<>>
    /\ pendingPromotion = NoPromotion
    /\ loading = FALSE
    /\ inflight = 0
    /\ promoting = 0
    /\ creating = 0
    /\ lastEvent = NoEvent
    /\ IdleMoves
    /\ IdleCodec
    /\ IdleTimer

\* the event the handler received, with the selection it found
Event(handler, id) ==
    [handler |-> handler, square |-> id, selected |-> selectedSquare,
     moves |-> possibleMoves, dragged |-> draggedFrom]

\* the branch handleSquareClick of ChessBoardSimple takes, without its
\* move branch
clickBranch_NoMove(squareNotation) ==
    IF selectedSquare = squareNotation THEN "deselect"
    ELSE IF clickedSquare(squareNotation).piece.color = "white" THEN "select"
    ELSE "none"

\* the branch handleSquareClick of ChessBoardSimple takes
clickBranch(squareNotation) ==
    IF selectedSquare = squareNotation THEN "deselect"
    ELSE IF selectedSquare # <<>> /\ includes(possibleMoves, squareNotation) THEN "move"
    ELSE IF clickedSquare(squareNotation).piece.color = "white" THEN "select"
    ELSE "none"

\* handleSquareClick(square) of ChessBoardSimple
handleSquareClick ==
    /\ view = "simple"
    /\ \E squareNotation \in ClickSquares :
          /\ clicked' = Event("click", squareNotation)
          /\ LET branch == clickBranch(squareNotation)
             IN CASE branch = "deselect" ->
                      /\ selectedSquare' = <<>>
                      /\ possibleMoves' = <<>>
                      /\ emitted' = <<>>
                  [] branch = "move" ->
                      /\ emitted' = << <<selectedSquare, squareNotation>> >>
                      /\ selectedSquare' = <<>>
                      /\ possibleMoves' = <<>>
                  [] branch = "select" ->
                      /\ selectedSquare' = squareNotation
                      /\ possibleMoves' = realMovesTable[gameFen][squareNotation]
                      /\ emitted' = <<>>
                  [] branch = "none" ->
                      /\ emitted' = <<>>
                      /\ UNCHANGED <<selectedSquare, possibleMoves>>
    /\ UNCHANGED <<view, draggedFrom>>
    /\ UNCHANGED <<component, hasGame, gameFen, lastSelectedFrom, lastSelectedDests, pendingPromotion, loading, inflight, promoting, creating, lastEvent>>
    /\ UNCHANGED <<movesVars, codecVars, timerVars>>

\* handleDragStart(event, square) of ChessBoardSimple
handleDragStart ==
    /\ view = "simple"
    /\ \E id \in ClickSquares :
          /\ clicked' = Event("dragstart", id)
          /\ LET square == clickedSquare(id)
             IN IF ~hasPiece(square) \/ square.piece.color # "white"
                THEN UNCHANGED <<draggedFrom, selectedSquare, possibleMoves>>
                ELSE /\ draggedFrom' = id
                     /\ selectedSquare' = id
                     /\ possibleMoves' = realMovesTable[gameFen][id]
    /\ emitted' = <<>>
    /\ UNCHANGED view
    /\ UNCHANGED <<component, hasGame, gameFen, lastSelectedFrom, lastSelectedDests, pendingPromotion, loading, inflight, promoting, creating, lastEvent>>
    /\ UNCHANGED <<movesVars, codecVars, timerVars>>

\* handleDrop(event, square) of ChessBoardSimple, resetDragState included
handleDrop ==
    /\ view = "simple"
    /\ \E targetSquare \in ClickSquares :
          /\ clicked' = Event("drop", targetSquare)
          /\ IF draggedFrom = <<>>
             THEN /\ emitted' = <<>>
                  /\ UNCHANGED <<draggedFrom, selectedSquare, possibleMoves>>
             ELSE /\ emitted' = IF draggedFrom # targetSquare
                                    /\ includes(possibleMoves, targetSquare)
                                THEN << <<draggedFrom, targetSquare>> >>
                                ELSE <<>>
                  /\ draggedFrom' = <<>>
                  /\ selectedSquare' = <<>>
                  /\ possibleMoves' = <<>>
    /\ UNCHANGED view
    /\ UNCHANGED <<component, hasGame, gameFen, lastSelectedFrom, lastSelectedDests, pendingPromotion, loading, inflight, promoting, creating, lastEvent>>
    /\ UNCHANGED <<movesVars, codecVars, timerVars>>

\* handleSquareClick(event) of the ChessBoard of squares; handleMove runs
\* up to its request
handleSquareClick_grid ==
    /\ view = "grid"
    /\ \E id \in ClickSquares :
          /\ clicked' = Event("click", id)
          /\ LET square == clickedSquare(id)
             IN IF selectedSquare # <<>> /\ includes(possibleMoves, id)
                THEN /\ emitted' = << <<selectedSquare, id>> >>
                     /\ selectedSquare' = <<>>
                     /\ possibleMoves' = <<>>
                ELSE IF hasPiece(square)
                THEN /\ selectedSquare' = id
                     /\ possibleMoves' = gridMovesTable[gameFen][id]
                     /\ emitted' = <<>>
                ELSE /\ selectedSquare' = <<>>
                     /\ possibleMoves' = <<>>
                     /\ emitted' = <<>>
    /\ UNCHANGED <<view, draggedFrom>>
    /\ UNCHANGED <<component, hasGame, gameFen, lastSelectedFrom, lastSelectedDests, pendingPromotion, loading, inflight, promoting, creating, lastEvent>>
    /\ UNCHANGED <<movesVars, codecVars, timerVars>>

\* the backend's answer to an emitted move: updateGameAfterMove replaces
\* the position (and the fen of the ChessBoard of squares)
PositionAnswered ==
    /\ \E fen \in ClickFens :
          /\ fen # gameFen
          /\ gameFen' = fen
    /\ emitted' = <<>>
    /\ clicked' = Event("answer", <<>>)
    /\ UNCHANGED <<view, draggedFrom>>
    /\ UNCHANGED <<component, hasGame, selectedSquare, possibleMoves, lastSelectedFrom, lastSelectedDests, pendingPromotion, loading, inflight, promoting, creating, lastEvent>>
    /\ UNCHANGED <<movesVars, codecVars, timerVars>>

NextClick ==
    \/ handleSquareClick
    \/ handleDragStart
    \/ handleDrop
    \/ handleSquareClick_grid
    \/ PositionAnswered

SpecClick == InitClick /\ [][NextClick]_vars

-----------------------------------------------------------------------------
(* The game timer of the store: gameStore.ts. Time is counted in units of  *)
(* TickMs milliseconds; an interval is known by the id setInterval returned*)
(* and by the startTime its callback closes over.                          *)

TickMs == 500
MaxNow == 5
MaxTimers == 3

TimerFens == {START_FEN, fenOf(AfterE4Placement, "b", <<"K","Q","k","q">>)}

\* clearInterval(id) that cancels nothing
clearInterval_Keep(live, id) == live

\* clearInterval(id): the interval id, if it is set, is cancelled
clearInterval(live, id) == {t \in live : t.id # id}

\* `if (state.gameTimer) clearInterval(state.gameTimer)`
clearGameTimer(live) == IF gameTimer # 0 THEN clearInterval(live, gameTimer) ELSE live

\* the intervals after startTimer when nothing is cancelled first
intervalsAfterStart_NoClear(id) ==
    intervals \cup {[id |-> id, startTime |-> now]}

\* the intervals after startTimer: the recorded one cancelled, a new one set
intervalsAfterStart(id) ==
    clearGameTimer(intervals) \cup {[id |-> id, startTime |-> now]}

\* Math.floor((Date.now() - startTime) / 1000)
elapsedSince(startTime) == ((now - startTime) * TickMs) \div 1000

TimerOp(name, id, gameOver, fen) ==
    [name |-> name, id |-> id, gameOver |-> gameOver, fen |-> fen,
     elapsedBefore |-> elapsedTime, timerBefore |-> gameTimer, liveBefore |-> intervals]

InitTimer ==
    /\ IdleTimer
    /\ IdleMoves
    /\ IdleCodec
    /\ IdlePage
    /\ IdleClick

\* gameActions.startTimer()
startTimer ==
    /\ created < MaxTimers
    /\ intervals' = intervalsAfterStart(created + 1)
    /\ created' = created + 1
    /\ gameStartTime' = now
    /\ elapsedTime' = 0
    /\ gameTimer' = created + 1
    /\ timerOp' = TimerOp("startTimer", created + 1, FALSE, <<>>)
    /\ UNCHANGED now
    /\ UNCHANGED <<movesVars, codecVars, pageVars, clickVars>>

\* gameActions.stopTimer()
stopTimer ==
    /\ intervals' = clearGameTimer(intervals)
    /\ gameTimer' = 0
    /\ timerOp' = TimerOp("stopTimer", gameTimer, FALSE, <<>>)
    /\ UNCHANGED <<now, elapsedTime, gameStartTime, created>>
    /\ UNCHANGED <<movesVars, codecVars, pageVars, clickVars>>

\* gameActions.clearGame()
clearGame ==
    /\ intervals' = clearGameTimer(intervals)
    /\ hasGame' = FALSE
    /\ gameFen' = <<>>
    /\ gameStartTime' = -1
    /\ elapsedTime' = 0
    /\ gameTimer' = 0
    /\ timerOp' = TimerOp("clearGame", gameTimer, FALSE, <<>>)
    /\ UNCHANGED <<now, created>>
    /\ UNCHANGED <<component, selectedSquare, possibleMoves, lastSelectedFrom, lastSelectedDests, pendingPromotion, loading, inflight, promoting, creating, lastEvent>>
    /\ UNCHANGED <<movesVars, codecVars, clickVars>>

\* gameActions.updateGameAfterMove(result), its call of stopTimer included
updateGameAfterMove ==
    /\ \E fen \in TimerFens, gameOver \in BOOLEAN :
          /\ hasGame' = TRUE
          /\ gameFen' = fen
          /\ IF gameOver
             THEN /\ intervals' = clearGameTimer(intervals)
                  /\ gameTimer' = 0
             ELSE UNCHANGED <<intervals, gameTimer>>
          /\ timerOp' = TimerOp("updateGameAfterMove", gameTimer, gameOver, fen)
    /\ UNCHANGED <<now, elapsedTime, gameStartTime, created>>
    /\ UNCHANGED <<component, selectedSquare, possibleMoves, lastSelectedFrom, lastSelectedDests, pendingPromotion, loading, inflight, promoting, creating, lastEvent>>
    /\ UNCHANGED <<movesVars, codecVars, clickVars>>

\* the callback of an interval that is set runs, a second or more after
\* the interval was created
Tick ==
    /\ \E t \in intervals :
          /\ (now - t.startTime) * TickMs >= 1000
          /\ elapsedTime' = elapsedSince(t.startTime)
          /\ timerOp' = TimerOp("tick", t.id, FALSE, <<>>)
    /\ UNCHANGED <<now, intervals, gameTimer, gameStartTime, created>>
    /\ UNCHANGED <<movesVars, codecVars, pageVars, clickVars>>

\* time passes
Advance ==
    /\ now < MaxNow
    /\ now' = now + 1
    /\ timerOp' = TimerOp("advance", 0, FALSE, <<>>)
    /\ UNCHANGED <<intervals, gameTimer, elapsedTime, gameStartTime, created>>
    /\ UNCHANGED <<movesVars, codecVars, pageVars, clickVars>>

NextTimer ==
    \/ startTimer
    \/ stopTimer
    \/ clearGame
    \/ updateGameAfterMove
    \/ Tick
    \/ Advance

SpecTimer == InitTimer /\ [][NextTimer]_vars

-----------------------------------------------------------------------------
(* The rules of movement stated on the squares of an 8x8 position, without *)
(* the generator's loops: the claims compare the generator's lists to them.*)
(* A square is <<f, r>>, f the file's number 1..8, r the rank.             *)

Squares == (1..8) \X (1..8)

IdOf(s) == <<files[s[1]], DigitChars[s[2] + 1]>>
IdsOf(S) == {IdOf(s) : s \in S}
OnBoardIds == IdsOf(Squares)

SetOf(list) == {list[k] : k \in 1..Len(list)}

\* rank r is row 9 - r of a decoded position, file f its f-th square
PieceOn(b, s) == b[9 - s[2]][s[1]].piece
Free(b, s) == PieceOn(b, s) = Null
HoldsColor(b, s, c) == PieceOn(b, s) # Null /\ PieceOn(b, s).color = c

PosOf(sq) == <<CHOOSE f \in 1..8 : files[f] = sq.file, sq.rank>>

Shift(s, df, dr, k) == <<s[1] + k * df, s[2] + k * dr>>

\* the squares of the ray from s in direction (df, dr): every square up to
\* the first occupied one, that one included when it holds the other colour
RaySquares(b, s, df, dr, c) ==
    {Shift(s, df, dr, k) :
        k \in {n \in 1..7 :
                 /\ Shift(s, df, dr, n) \in Squares
                 /\ \A m \in 1..(n - 1) : Free(b, Shift(s, df, dr, m))
                 /\ ~HoldsColor(b, Shift(s, df, dr, n), c)}}

DiagonalDirs == {<<1, 1>>, <<1, -1>>, <<-1, 1>>, <<-1, -1>>}
StraightDirs == {<<1, 0>>, <<-1, 0>>, <<0, 1>>, <<0, -1>>}
KnightOffsets == {<<1, 2>>, <<2, 1>>, <<2, -1>>, <<1, -2>>,
                  <<-1, -2>>, <<-2, -1>>, <<-2, 1>>, <<-1, 2>>}
AdjacentOffsets == ((-1..1) \X (-1..1)) \ {<<0, 0>>}

SlideSquares(b, s, dirs, c) ==
    UNION {RaySquares(b, s, d[1], d[2], c) : d \in dirs}

OffsetSquares(b, s, offsets, c) ==
    {t \in {Shift(s, d[1], d[2], 1) : d \in offsets} :
        t \in Squares /\ ~HoldsColor(b, t, c)}

PawnSquares(b, s, c) ==
    LET dir == IF c = "white" THEN 1 ELSE -1
        start == IF c = "white" THEN 2 ELSE 7
        one == <<s[1], s[2] + dir>>
        two == <<s[1], s[2] + 2 * dir>>
    IN  {t \in {one} : t \in Squares /\ Free(b, t)}
        \cup {t \in {two} : /\ t \in Squares
                            /\ s[2] = start
                            /\ Free(b, one)
                            /\ Free(b, t)}
        \cup {t \in {<<s[1] - 1, s[2] + dir>>, <<s[1] + 1, s[2] + dir>>} :
                  t \in Squares /\ HoldsColor(b, t, opposite(c))}

\* the destinations of the piece on s by its rule, castling left out
RuleSquares(b, s) ==
    LET p == PieceOn(b, s) IN
    CASE p.type = "pawn" -> PawnSquares(b, s, p.color)
      [] p.type = "knight" -> OffsetSquares(b, s, KnightOffsets, p.color)
      [] p.type = "bishop" -> SlideSquares(b, s, DiagonalDirs, p.color)
      [] p.type = "rook" -> SlideSquares(b, s, StraightDirs, p.color)
      [] p.type = "queen" -> SlideSquares(b, s, DiagonalDirs \cup StraightDirs, p.color)
      [] p.type = "king" -> OffsetSquares(b, s, AdjacentOffsets, p.color)
      [] OTHER -> {}

\* some piece of colour c has t among the destinations of its rule
Attacks(b, c, t) ==
    \E s \in Squares : HoldsColor(b, s, c) /\ t \in RuleSquares(b, s)

WithPiece(b, s, p) == [b EXCEPT ![9 - s[2]][s[1]].piece = p]

StartBoard == parseFEN(StartPlacement).board
EmptyBoard == parseFEN(EmptyPlacement).board
CastleBoard == parseFEN(CastlePlacement).board
RookE8Board == parseFEN(RookE8Placement).board

Piece(t, c) == [type |-> t, color |-> c]
MovesCall == op = "moves"
OriginIs(t, c, file, rank) ==
    MovesCall /\ origin.piece = Piece(t, c) /\ origin.file = file /\ origin.rank = rank

-----------------------------------------------------------------------------
(* Claims on the move generator, under SpecMoves.                          *)

\* C1: every element getPossibleMoves returns, with or without the fen,
\* names a square of files a..h and ranks 1..8.
C1_OnBoard ==
    MovesCall => \A k \in 1..Len(moves) : moves[k] \in OnBoardIds

\* a white pawn on rank 8 and a black pawn on rank 1 are asked for moves
C1_Witness ==
    /\ MovesCall
    /\ origin.piece.type = "pawn"
    /\ origin.rank = (IF origin.piece.color = "white" THEN 8 ELSE 1)
    /\ origin.file \in {"a", "h"}
    /\ Len(fenArg) > 0

\* C2: getPossibleMoves never returns a square that holds a piece of the
\* colour of the piece on the origin square.
C2_NoOwnColor ==
    (MovesCall /\ hasPiece(origin)) =>
        \A s \in Squares :
            IdOf(s) \in SetOf(moves) => ~HoldsColor(board, s, origin.piece.color)

\* a king castles (g1 returned) next to squares that hold its own pieces
C2_Witness ==
    /\ OriginIs("king", "white", "e", 1)
    /\ <<"g", "1">> \in SetOf(moves)
    /\ HoldsColor(board, <<4, 2>>, "white")
    /\ HoldsColor(board, <<8, 1>>, "white")

HomeKing == MovesCall /\ origin.piece.type = "king" /\ Len(fenArg) > 0
           /\ origin.file = "e"
           /\ origin.rank = (IF origin.piece.color = "white" THEN 1 ELSE 8)
HomeRank == origin.rank
KingsideLetter == IF origin.piece.color = "white" THEN "K" ELSE "k"
QueensideLetter == IF origin.piece.color = "white" THEN "Q" ELSE "q"
Unattacked(fs) ==
    \A f \in fs : ~Attacks(board, opposite(origin.piece.color), <<f, HomeRank>>)
AllFree(fs) == \A f \in fs : Free(board, <<f, HomeRank>>)

\* C3: for a king on its home square and a call with the fen, g1 / g8 is
\* returned iff the third field holds K / k, f and g are empty and none of
\* e, f, g is attacked by the other colour.
C3_Kingside ==
    HomeKing =>
        (IdOf(<<7, HomeRank>>) \in SetOf(moves)
            <=> /\ includes(rights, KingsideLetter)
                /\ AllFree({6, 7})
                /\ Unattacked({5, 6, 7}))

\* the right is set and f, g are empty, but g is attacked: no castling
C3_Witness ==
    /\ HomeKing
    /\ includes(rights, KingsideLetter)
    /\ AllFree({6, 7})
    /\ Unattacked({5, 6})
    /\ ~Unattacked({7})
    /\ IdOf(<<7, HomeRank>>) \notin SetOf(moves)

\* C4: for a king on its home square and a call with the fen, c1 / c8 is
\* returned iff the third field holds Q / q, b, c and d are empty and none
\* of e, d, c is attacked by the other colour; "-" enables nothing.
C4_Queenside ==
    HomeKing =>
        /\ IdOf(<<3, HomeRank>>) \in SetOf(moves)
            <=> /\ includes(rights, QueensideLetter)
                /\ AllFree({2, 3, 4})
                /\ Unattacked({5, 4, 3})
        /\ rights = <<"-">> =>
              SetOf(moves) \cap {IdOf(<<3, HomeRank>>), IdOf(<<7, HomeRank>>)} = {}

\* queenside is returned and kingside is not, for want of the letter alone
C4_Witness ==
    /\ HomeKing
    /\ includes(rights, QueensideLetter)
    /\ ~includes(rights, KingsideLetter)
    /\ IdOf(<<3, HomeRank>>) \in SetOf(moves)
    /\ IdOf(<<7, HomeRank>>) \notin SetOf(moves)
    /\ AllFree({6, 7})
    /\ Unattacked({5, 6, 7})

TargetSquare == <<CHOOSE f \in 1..8 : files[f] = target[1], target[2]>>
EFileBetween == {<<5, r>> : r \in 2..7}

\* C5: isAttacked is true iff some piece of byColor has the square among the
\* destinations of its rule, castling left out; the rook on e8 attacks e1
\* along the empty e-file and no longer does with a white piece between.
C5_Attacked ==
    op = "attack" =>
        /\ attacked <=> Attacks(board, byColor, TargetSquare)
        /\ (board = RookE8Board /\ target = <<"e", 1>> /\ byColor = "black")
              => attacked
        /\ (/\ target = <<"e", 1>> /\ byColor = "black"
            /\ \E s \in EFileBetween, t \in PieceTypes :
                  board = WithPiece(RookE8Board, s, Piece(t, "white")))
              => ~attacked

\* the rook on e8, a white piece on the e-file, and e1 asked about
C5_Witness ==
    /\ op = "attack" /\ target = <<"e", 1>> /\ byColor = "black" /\ ~attacked
    /\ \E s \in EFileBetween, t \in PieceTypes :
          board = WithPiece(RookE8Board, s, Piece(t, "white"))

\* C9: the list of a bishop or a rook is exactly its rays, each up to the
\* first occupied square, that square included when it holds the other
\* colour; the rook on d4 of the empty board gets the 14 squares of the
\* d-file and the 4th rank, the bishop on c1 of the start position none.
C9_Sliders ==
    /\ (MovesCall /\ origin.piece.type = "bishop") =>
          SetOf(moves) = IdsOf(SlideSquares(board, PosOf(origin), DiagonalDirs,
                                            origin.piece.color))
    /\ (MovesCall /\ origin.piece.type = "rook") =>
          SetOf(moves) = IdsOf(SlideSquares(board, PosOf(origin), StraightDirs,
                                            origin.piece.color))
    /\ \A c \in Colors :
          (OriginIs("rook", c, "d", 4) /\ board = WithPiece(EmptyBoard, <<4, 4>>, Piece("rook", c)))
            => /\ SetOf(moves) = IdsOf({s \in Squares : (s[1] = 4 \/ s[2] = 4) /\ s # <<4, 4>>})
               /\ Len(moves) = 14
    /\ (OriginIs("bishop", "white", "c", 1) /\ board = StartBoard) => moves = <<>>

\* a rook whose ray ends on an enemy piece with more squares behind it
C9_Witness ==
    /\ MovesCall /\ origin.piece.type = "rook"
    /\ \E d \in StraightDirs : \E k \in 2..6 :
          /\ Shift(PosOf(origin), d[1], d[2], k + 1) \in Squares
          /\ \A m \in 1..(k - 1) : Free(board, Shift(PosOf(origin), d[1], d[2], m))
          /\ HoldsColor(board, Shift(PosOf(origin), d[1], d[2], k), opposite(origin.piece.color))
          /\ IdOf(Shift(PosOf(origin), d[1], d[2], k)) \in SetOf(moves)

\* C10: the list of a pawn is exactly: one step forward when empty, two from
\* the starting rank when both are empty, and the forward diagonals that
\* hold the other colour; e2 of the start position gets {e3, e4}, a white
\* pawn on e3 {e4}.
C10_Pawn ==
    /\ (MovesCall /\ origin.piece.type = "pawn") =>
          SetOf(moves) = IdsOf(PawnSquares(board, PosOf(origin), origin.piece.color))
    /\ (OriginIs("pawn", "white", "e", 2) /\ board = StartBoard) =>
          SetOf(moves) = {<<"e", "3">>, <<"e", "4">>}
    /\ (/\ OriginIs("pawn", "white", "e", 3)
        /\ board = WithPiece(StartBoard, <<5, 3>>, Piece("pawn", "white"))) =>
          SetOf(moves) = {<<"e", "4">>}

\* a pawn on its starting rank with a piece right in front of it and the
\* square behind that piece empty: it gets neither advance
C10_Witness ==
    /\ OriginIs("pawn", "white", "e", 2)
    /\ ~Free(board, <<5, 3>>)
    /\ Free(board, <<5, 4>>)
    /\ moves = <<>>

-----------------------------------------------------------------------------
(* The exchange string as text: its fields, rank groups and characters.    *)

\* number of space-separated fields of s
FieldCount(s) == Cardinality({i \in 1..Len(s) : s[i] = " "}) + 1

\* the first field of s
PlacementField(s) == SubSeq(s, 1, firstSpace(s) - 1)

\* number of '/'-separated groups of the placement field
GroupCount(s) ==
    Cardinality({i \in 1..Len(PlacementField(s)) : PlacementField(s)[i] = "/"}) + 1

PlacementChars ==
    {"1", "2", "3", "4", "5", "6", "7", "8", "/",
     "k", "q", "r", "b", "n", "p", "K", "Q", "R", "B", "N", "P"}

HasInvalidChar(s) ==
    \E i \in 1..Len(PlacementField(s)) : PlacementField(s)[i] \notin PlacementChars

DecodeDone == codecOp \in {"parseFEN", "parseFEN2"}

\* C7: decoding an exchange string whose number of space-separated fields is
\* not 6 (five fields, for one) ends in a decode error and never in a board.
C7_FieldCountError ==
    (DecodeDone /\ FieldCount(codecIn) # 6) => decoded.error # "none"

\* C8: decoding an exchange string whose placement field has not exactly 8
\* rank groups, or holds a character that is neither a digit 1..8 nor a piece
\* letter, ends in a decode error: no board of fewer or more than 8 ranks is
\* returned and the character is not turned into a piece.
C8_PlacementError ==
    (DecodeDone /\ (GroupCount(codecIn) # 8 \/ HasInvalidChar(codecIn)))
        => decoded.error # "none"

-----------------------------------------------------------------------------
(* The move event of the board and the request it may lead to.             *)

\* white is to move in the current exchange string and `to` is in the list
\* getPossibleMoves gives for the piece on `from` in the current position
MoveCondition(from, to) ==
    /\ turnFromFen(currentFen) = "white"
    /\ LET b == parseFEN(currentFen).board
           sq == findSquareById(b, from)
       IN /\ sq # NoSquare
          /\ includes(getPossibleMoves(b, sq, currentFen), to)

\* one step of the page seen as the handling of a move event
MoveEventStep ==
    /\ lastEvent'.kind = "move" =>
          /\ lastEvent'.outcome # "reset" =>
                MoveCondition(lastEvent'.from, lastEvent'.to)
          /\ lastEvent'.outcome = "reset" =>
                inflight' = inflight /\ pendingPromotion' = pendingPromotion
          /\ inflight' > inflight =>
                /\ lastEvent'.outcome = "request"
                /\ lastEvent'.move = lastEvent'.from \o lastEvent'.to
          /\ pendingPromotion' # pendingPromotion =>
                /\ lastEvent'.outcome = "promotion"
                /\ pendingPromotion' = [from |-> lastEvent'.from, to |-> lastEvent'.to]
    /\ inflight' > inflight => lastEvent'.kind \in {"move", "promote"}
    /\ lastEvent'.kind = "promote" =>
          /\ pendingPromotion # NoPromotion
          /\ lastEvent'.from = pendingPromotion.from
          /\ lastEvent'.to = pendingPromotion.to
    /\ (pendingPromotion' # pendingPromotion /\ pendingPromotion' # NoPromotion) =>
          lastEvent'.kind = "move"

\* C6: when the board emits a move event (from, to), a request is sent for it
\* (at once, or through the promotion dialog the event opens) only if, as the
\* event is handled, white is to move in the current exchange string and `to`
\* is in getPossibleMoves for the piece on `from`; in every other case the
\* board is reset to the current position, nothing is sent and no dialog opens.
C6_MoveGuard == [][MoveEventStep]_vars

\* a move event that passed for e2-e4 and whose request is in flight
C6_Witness ==
    /\ lastEvent.kind = "move"
    /\ lastEvent.outcome = "request"
    /\ lastEvent.from = <<"e","2">>
    /\ lastEvent.to = <<"e","4">>
    /\ inflight > 0

-----------------------------------------------------------------------------
(* Claims on the knight, the king and the dispatch, under SpecMoves.       *)

\* C11: the list of a knight is exactly the squares at the 8 offsets
\* (+-1, +-2), (+-2, +-1) that are on the board and hold no piece of its
\* colour, whatever stands between; the knight on b1 of the start position
\* gets {a3, c3}.
C11_Knight ==
    /\ (MovesCall /\ origin.piece.type = "knight") =>
          SetOf(moves) = IdsOf(OffsetSquares(board, PosOf(origin), KnightOffsets,
                                             origin.piece.color))
    /\ (OriginIs("knight", "white", "b", 1) /\ board = StartBoard) =>
          SetOf(moves) = {<<"a", "3">>, <<"c", "3">>}

\* the knight on b1 of the start position, hemmed in by a2, b2, c2, c1, a1
C11_Witness ==
    /\ OriginIs("knight", "white", "b", 1)
    /\ board = StartBoard
    /\ Len(moves) = 2

\* the castling destinations of the king the call is about: none unless it
\* stands on the home square of its colour and the call gives the fen
CastlingIds ==
    IF ~HomeKing THEN {}
    ELSE {IdOf(<<7, HomeRank>>) : x \in {y \in {1} :
              /\ includes(rights, KingsideLetter)
              /\ AllFree({6, 7})
              /\ Unattacked({5, 6, 7})}}
         \cup
         {IdOf(<<3, HomeRank>>) : x \in {y \in {1} :
              /\ includes(rights, QueensideLetter)
              /\ AllFree({2, 3, 4})
              /\ Unattacked({5, 4, 3})}}

KingCall == MovesCall /\ origin.piece.type = "king"

\* C12: the list of a king is exactly the adjacent squares of the board that
\* hold no piece of its colour, plus the castling destinations the castling
\* sub-rule allows; a king that is not on the home square of its own colour
\* gets no castling destination, whatever the rights field says.
C12_King ==
    KingCall =>
        /\ SetOf(moves) =
              IdsOf(OffsetSquares(board, PosOf(origin), AdjacentOffsets,
                                  origin.piece.color)) \cup CastlingIds
        /\ ~HomeKing =>
              \A k \in 1..Len(moves) :
                  \E d \in AdjacentOffsets :
                      /\ Shift(PosOf(origin), d[1], d[2], 1) \in Squares
                      /\ moves[k] = IdOf(Shift(PosOf(origin), d[1], d[2], 1))

\* a white king on e8 (or a black one on e1) asked with all four rights, the
\* squares beside it empty
C12_Witness ==
    /\ KingCall
    /\ rights = <<"K","Q","k","q">>
    /\ origin.file = "e"
    /\ origin.rank = (IF origin.piece.color = "white" THEN 8 ELSE 1)
    /\ Free(board, <<6, origin.rank>>) /\ Free(board, <<7, origin.rank>>)
    /\ Free(board, <<4, origin.rank>>)
    /\ Len(moves) = 5

\* C13: getPossibleMoves returns the empty list for an origin without a
\* piece; otherwise its list is the one the rule of the piece's type gives
\* (the squares of that rule, castling added for a king), and for a queen it
\* is, as a set, the bishop's rule and the rook's rule from the same origin
\* with the same colour put together.
C13_Dispatch ==
    MovesCall =>
        /\ ~hasPiece(origin) => moves = <<>>
        /\ hasPiece(origin) =>
              SetOf(moves) = IdsOf(RuleSquares(board, PosOf(origin)))
                               \cup (IF KingCall THEN CastlingIds ELSE {})
        /\ origin.piece.type = "queen" =>
              /\ SetOf(moves) =
                    IdsOf(SlideSquares(board, PosOf(origin), DiagonalDirs, origin.piece.color))
                    \cup IdsOf(SlideSquares(board, PosOf(origin), StraightDirs, origin.piece.color))
              /\ moves = getBishopMoves(board, origin, origin.piece.color)
                           \o getRookMoves(board, origin, origin.piece.color)

\* a queen with both a diagonal and a straight destination
C13_Witness ==
    /\ MovesCall /\ origin.piece.type = "queen"
    /\ SlideSquares(board, PosOf(origin), DiagonalDirs, origin.piece.color) # {}
    /\ SlideSquares(board, PosOf(origin), StraightDirs, origin.piece.color) # {}
    /\ Len(moves) >= 2

-----------------------------------------------------------------------------
(* Termination and frame of the move generator, under SpecMoves.           *)

\* C14: every call of getPossibleMoves ends with a list, and the calls of
\* getPossibleMoves nest at most two deep: the one made, and those of the
\* attack scans of its castling sub-rule, which are made without the fen and
\* so never enter the castling sub-rule again. A call of isAttacked nests
\* them one deep.
C14_Nesting ==
    /\ MovesCall =>
          /\ callNesting(board, origin, fenArg, MaxNesting) <= 2
          /\ Len(moves) <= 64
    /\ op = "attack" =>
          \A s \in Squares :
              callNesting(board, board[9 - s[2]][s[1]], nestedFen(<<"x">>), MaxNesting) <= 1

\* both kings on their home squares, all four rights, and the white king's
\* castling sub-rule scanning the black pieces, the black king among them
C14_Witness ==
    /\ KingCall /\ HomeKing
    /\ rights = <<"K","Q","k","q">>
    /\ PieceOn(board, <<5, 1>>) = Piece("king", "white")
    /\ PieceOn(board, <<5, 8>>) = Piece("king", "black")
    /\ AllFree({6, 7}) /\ Free(board, <<6, 8>>) /\ Free(board, <<7, 8>>)
    /\ callNesting(board, origin, fenArg, MaxNesting) = 2

-----------------------------------------------------------------------------
(* The layout of a placement field, read off its characters.               *)

DigitValue == [c \in {"1", "2", "3", "4", "5", "6", "7", "8"} |->
                 CHOOSE n \in 1..8 : DigitChars[n + 1] = c]

LetterType == [c \in {"k", "q", "r", "b", "n", "p", "K", "Q", "R", "B", "N", "P"} |->
                 CASE c \in {"k", "K"} -> "king"
                   [] c \in {"q", "Q"} -> "queen"
                   [] c \in {"r", "R"} -> "rook"
                   [] c \in {"b", "B"} -> "bishop"
                   [] c \in {"n", "N"} -> "knight"
                   [] c \in {"p", "P"} -> "pawn"]

\* the rank group (0 for the first) the k-th character of p lies in
GroupOf(p, k) == Cardinality({i \in 1..(k - 1) : p[i] = "/"})

\* the squares the k-th character of p stands for
WidthAt(p, k) ==
    IF p[k] = "/" THEN 0
    ELSE IF p[k] \in DOMAIN DigitValue THEN DigitValue[p[k]] ELSE 1

\* the squares of group g that lie before the k-th character
FilesBefore(p, k) ==
    Cardinality({in \in (1..(k - 1)) \X (1..8) :
                    GroupOf(p, in[1]) = GroupOf(p, k) /\ in[2] <= WidthAt(p, in[1])})

GroupWidth(p, g) ==
    Cardinality({in \in (1..Len(p)) \X (1..8) :
                    GroupOf(p, in[1]) = g /\ in[2] <= WidthAt(p, in[1])})

\* 8 rank groups of valid characters, each 8 squares wide
WellFormed(p) ==
    /\ \A k \in 1..Len(p) : p[k] \in PlacementChars
    /\ Cardinality({k \in 1..Len(p) : p[k] = "/"}) = 7
    /\ \A g \in 0..7 : GroupWidth(p, g) = 8

\* the character that covers file f (1..8) of group g
CharOver(p, g, f) ==
    p[CHOOSE k \in 1..Len(p) :
         /\ GroupOf(p, k) = g
         /\ FilesBefore(p, k) < f
         /\ f <= FilesBefore(p, k) + WidthAt(p, k)]

PieceOfLetter(c) ==
    IF c \in DOMAIN DigitValue THEN Null
    ELSE [type |-> LetterType[c],
          color |-> IF c \in {"K", "Q", "R", "B", "N", "P"} THEN "white" ELSE "black"]

\* C16: for a well-formed placement field, parseFEN gives an 8x8 grid whose
\* i-th group (from 0) is rank 8 - i with files a..h from the left, a digit n
\* standing for n empty squares and a letter for the piece of its type, white
\* exactly when uppercase; every (file, rank) of a..h x 1..8 occurs once.
C16_Layout ==
    (DecodeDone /\ WellFormed(PlacementField(codecIn))) =>
        /\ decoded.error = "none"
        /\ Len(decoded.board) = 8
        /\ \A i \in 1..8 :
              /\ Len(decoded.board[i]) = 8
              /\ \A f \in 1..8 :
                    decoded.board[i][f] =
                        [file |-> files[f], rank |-> 9 - i,
                         piece |-> PieceOfLetter(CharOver(PlacementField(codecIn), i - 1, f))]
        /\ Cardinality({<<decoded.board[i][f].file, decoded.board[i][f].rank>> :
                           i \in 1..8, f \in 1..8}) = 64

\* r3k2r/... with its k replaced by Q, decoded by the second parseFEN: a white
\* queen on e8 between runs of empty squares
C16_Witness ==
    /\ codecOp = "parseFEN2"
    /\ codecEdits = 1
    /\ WellFormed(PlacementField(codecIn))
    /\ decoded.board[1][5].piece = Piece("queen", "white")
    /\ decoded.board[1][4].piece = Null

-----------------------------------------------------------------------------
(* Re-encoding a board's placement: the encoder of the exchange format,    *)
(* which the front end does not hold, written from the format's rules: a   *)
(* run of n empty squares is the digit n, a piece is the letter of its     *)
(* type, uppercase for white, and the ranks are joined by '/' from 8 to 1. *)

encodeLetter(piece) ==
    LET lower == CASE piece.type = "king" -> "k"
                   [] piece.type = "queen" -> "q"
                   [] piece.type = "rook" -> "r"
                   [] piece.type = "bishop" -> "b"
                   [] piece.type = "knight" -> "n"
                   [] piece.type = "pawn" -> "p"
                   [] OTHER -> "?"
    IN IF piece.color = "white" THEN toUpperCase(lower) ELSE lower

RECURSIVE encodeRank(_, _, _)
encodeRank(row, i, run) ==
    LET flush == IF run > 0 THEN numberToString(run) ELSE <<>>
    IN IF i > Len(row) THEN flush
       ELSE IF ~hasPiece(row[i]) THEN encodeRank(row, i + 1, run + 1)
       ELSE flush \o <<encodeLetter(row[i].piece)>> \o encodeRank(row, i + 1, 0)

RECURSIVE encodeRanks(_, _)
encodeRanks(b, i) ==
    IF i > Len(b) THEN <<>>
    ELSE (IF i > 1 THEN <<"/">> ELSE <<>>) \o encodeRank(b[i], 1, 0) \o encodeRanks(b, i + 1)

encodePlacement(b) == encodeRanks(b, 1)

\* the decoder that ran, applied to another string
DecodeAgain(s) == IF codecOp = "parseFEN2" THEN parseFEN2(s) ELSE parseFEN(s)

ValidExchange(s) == WellFormed(PlacementField(s)) /\ FieldCount(s) = 6

\* C17: for a valid exchange string s, decoding s, re-encoding the placement
\* of the board and decoding that again puts on each of the 64 squares the
\* piece that decoding s put there.
C17_RoundTrip ==
    (DecodeDone /\ ValidExchange(codecIn)) =>
        LET again == DecodeAgain(encodePlacement(decoded.board))
        IN /\ again.error = "none"
           /\ Len(again.board) = 8
           /\ \A i \in 1..8 : \A f \in 1..8 :
                 /\ again.board[i][f].piece = decoded.board[i][f].piece
                 /\ again.board[i][f].file = decoded.board[i][f].file
                 /\ again.board[i][f].rank = decoded.board[i][f].rank

\* the start position with one piece replaced, decoded by the second
\* parseFEN, and its re-encoding being the placement that was decoded
C17_Witness ==
    /\ codecOp = "parseFEN2"
    /\ codecEdits = 1
    /\ ValidExchange(codecIn)
    /\ decoded.board[8][4].piece = Piece("queen", "white")
    /\ decoded.board[8][5].piece = Piece("queen", "white")
    /\ encodePlacement(decoded.board) = PlacementField(codecIn)

-----------------------------------------------------------------------------
(* The side to move, under SpecCodec.                                      *)

\* the second space-separated field of s is the one letter w
SecondFieldIsW(s) ==
    LET a == firstSpace(s)
    IN /\ a + 1 <= Len(s)
       /\ s[a + 1] = "w"
       /\ (a + 2 <= Len(s) => s[a + 2] = " ")

\* C18: the side to move derived from an exchange string is white exactly
\* when its second space-separated field is the literal w, and black for
\* every other value of that field, a missing field included.
C18_SideToMove ==
    codecOp \in {"turnFromFen", "turnFromFen2"} =>
        /\ turn \in {"white", "black"}
        /\ turn = "white" <=> SecondFieldIsW(codecIn)

-----------------------------------------------------------------------------
(* The selection and the position, under SpecPage.                         *)

\* a step of the page that replaces the current position by a game with
\* another exchange string: setCurrentGame or updateGameAfterMove
PositionReplaced == component = "page" /\ hasGame' /\ currentFen' # currentFen

\* C19: a selection never outlives the position it was computed on: once
\* the current position is replaced, selectedSquare is null, possibleMoves
\* is empty and the page's cache holds no destinations of the old position.
C19_SelectionDropped ==
    [][PositionReplaced =>
          /\ selectedSquare' = <<>>
          /\ possibleMoves' = <<>>
          /\ lastSelectedDests' = <<>>]_vars

\* the square id of the current position holds a piece of the side to move
OwnPieceOn(id) ==
    /\ id \in PageSquares
    /\ LET sq == squareTable[currentFen][id]
       IN /\ sq # NoSquare
          /\ hasPiece(sq)
          /\ sq.piece.color = turnTable[currentFen]

\* C20: a selection is created only for a square holding a piece of the
\* side to move: while nothing is selected, selecting an empty square or a
\* piece of the other side leaves selectedSquare null and possibleMoves
\* empty.
C20_SelectOwnPiece ==
    [][(selectedSquare = <<>> /\ component = "page" /\ ~OwnPieceOn(selectedSquare'))
          => (selectedSquare' = <<>> /\ possibleMoves' = <<>>)]_vars

-----------------------------------------------------------------------------
(* The selection of the click-driven boards, under SpecClick.              *)

\* the last event was a click on square id while a square was selected
ClickedWhileSelected == clicked.handler = "click" /\ clicked.selected # <<>>

Idle == selectedSquare = <<>> /\ possibleMoves = <<>>

\* C21: in handleSquareClick, a click on the selected square returns the
\* selection to Idle (selectedSquare null, possibleMoves empty) and emits
\* no move.
C21_Reclick ==
    (ClickedWhileSelected /\ clicked.square = clicked.selected) =>
        (Idle /\ emitted = <<>>)

\* C22: in handleSquareClick, a click on a destination T of the selected
\* square S emits exactly the one move (S, T) and resets the selection to
\* Idle in the same step, before any answer of the backend; a drop on a
\* destination of the dragged square, while it is the selected one, does
\* the same.
C22_MoveEmitted ==
    /\ (ClickedWhileSelected /\ includes(clicked.moves, clicked.square)) =>
          (emitted = << <<clicked.selected, clicked.square>> >> /\ Idle)
    /\ (clicked.handler = "drop" /\ clicked.dragged # <<>>
           /\ clicked.selected = clicked.dragged
           /\ includes(clicked.moves, clicked.square)) =>
          (emitted = << <<clicked.dragged, clicked.square>> >> /\ Idle)

C22_Witness ==
    /\ view = "simple"
    /\ clicked.handler = "click"
    /\ clicked.selected = <<"e", "2">>
    /\ clicked.square = <<"e", "4">>
    /\ emitted = << <<<<"e", "2">>, <<"e", "4">>>> >>
    /\ selectedSquare = <<>>

\* the square id of the shown position holds a piece of the side to move
FriendlyOn(id) ==
    LET sq == clickSquareTable[view][gameFen][id]
    IN hasPiece(sq) /\ sq.piece.color = turnFromFen(gameFen)

\* C23: in handleSquareClick, with a square selected, a click on a square
\* that is neither the selected square nor one of its destinations and
\* holds no friendly piece returns the selection to Idle.
C23_ClickElsewhere ==
    (/\ ClickedWhileSelected
     /\ clicked.square # clicked.selected
     /\ ~includes(clicked.moves, clicked.square)
     /\ ~FriendlyOn(clicked.square)) => Idle

-----------------------------------------------------------------------------
(* The promotion prompt, under SpecPage.                                   *)

\* the last board move opened the promotion dialog instead of being sent
PromotionPrompted == lastEvent.kind = "move" /\ lastEvent.outcome = "promotion"

\* C24: the promotion choice is requested only when the piece on the origin
\* square is a pawn moving from rank 7 to 8 or from rank 2 to 1; a validated
\* move of another piece between those ranks is submitted without a prompt.
C24_PromptOnlyForPawns ==
    PromotionPrompted =>
        /\ pendingPromotion = [from |-> lastEvent.from, to |-> lastEvent.to]
        /\ squareTable[currentFen][lastEvent.from].piece.type = "pawn"
        /\ isPawnPromotion(lastEvent.from, lastEvent.to)

-----------------------------------------------------------------------------
(* The game timer, under SpecTimer.                                        *)

\* C25: after any sequence of startTimer, stopTimer, clearGame and
\* updateGameAfterMove at most one interval is ticking, and one is exactly
\* when gameTimer is not null; startTimer leaves elapsedTime at 0, and only
\* the interval recorded in gameTimer ever updates elapsedTime.
C25_OneInterval ==
    /\ Cardinality(intervals) <= 1
    /\ (intervals # {}) <=> (gameTimer # 0)
    /\ \A t \in intervals : t.id = gameTimer
    /\ timerOp.name = "startTimer" => elapsedTime = 0
    /\ timerOp.name = "tick" => timerOp.id = gameTimer

C25_Witness ==
    /\ timerOp.name = "tick"
    /\ created >= 2
    /\ timerOp.id = created
    /\ elapsedTime >= 1

\* C26: updateGameAfterMove with gameOver true leaves the timer stopped
\* (gameTimer null, no interval left to tick) and elapsedTime as it was;
\* with gameOver false it leaves the timer as it was; in both cases
\* currentGame becomes result.game.
C26_GameOverStops ==
    timerOp.name = "updateGameAfterMove" =>
        /\ hasGame /\ gameFen = timerOp.fen
        /\ elapsedTime = timerOp.elapsedBefore
        /\ IF timerOp.gameOver
           THEN gameTimer = 0 /\ intervals = {}
           ELSE gameTimer = timerOp.timerBefore /\ intervals = timerOp.liveBefore

C26_Witness ==
    /\ timerOp.name = "updateGameAfterMove"
    /\ timerOp.gameOver
    /\ timerOp.timerBefore # 0
    /\ elapsedTime >= 1
    /\ gameTimer = 0

-----------------------------------------------------------------------------
(* The move requests in flight, under SpecPage.                            *)

\* C27: at most one move request is in flight at a time: while a request
\* started by makeMove has not completed, no board move event or promotion
\* choice starts a second one, and loading is true while one is outstanding.
C27_SingleRequest ==
    component = "page" =>
        /\ inflight <= 1
        /\ inflight > 0 => loading

-----------------------------------------------------------------------------
(* Castling and the corner squares, under SpecMoves.                       *)

CornerFiles == {1, 8}

\* what may stand on a corner without changing what the other colour
\* attacks: nothing, or a piece of the king's colour
CornerFillings ==
    {Null, Piece("rook", origin.piece.color), Piece("knight", origin.piece.color)}

CornerIsOwnOrFree(cf) ==
    Free(board, <<cf, HomeRank>>) \/ HoldsColor(board, <<cf, HomeRank>>, origin.piece.color)

CastlingDests == {IdOf(<<7, HomeRank>>), IdOf(<<3, HomeRank>>)}

\* C28: whether a castling destination is produced does not depend on a
\* rook of the king's colour standing on the corner square: with the corner
\* emptied, or holding a rook or another piece of the king's colour, the
\* castling destinations are the ones the call returned.
C28_NoRookTest ==
    HomeKing =>
        \A cf \in CornerFiles : \A p \in CornerFillings :
            CornerIsOwnOrFree(cf) =>
                SetOf(getCastlingMoves(WithPiece(board, <<cf, HomeRank>>, p), origin,
                                       origin.piece.color, fenArg))
                    = SetOf(moves) \cap CastlingDests

\* the kingside right is set, the corner h1 / h8 holds no rook, and the
\* kingside destination is returned
C28_Witness ==
    /\ HomeKing
    /\ includes(rights, KingsideLetter)
    /\ PieceOn(board, <<8, HomeRank>>) # Piece("rook", origin.piece.color)
    /\ CornerIsOwnOrFree(8)
    /\ IdOf(<<7, HomeRank>>) \in SetOf(moves)

-----------------------------------------------------------------------------
(* Pawns in the attack scan, under SpecMoves.                              *)

PawnOf(c, s) == s \in Squares /\ PieceOn(board, s) = Piece("pawn", c)
Forward(c) == IF c = "white" THEN 1 ELSE -1
StartRank(c) == IF c = "white" THEN 2 ELSE 7
Behind(s, c, n) == <<s[1], s[2] - n * Forward(c)>>

\* C29: in isAttacked a pawn attacks the squares its move rule returns: an
\* empty square one step in front of a pawn of byColor (or two steps in
\* front of one on its starting rank, the square between empty) is
\* attacked; an empty square is not attacked when byColor has only pawns
\* and none of them on the square's file, so not by a pawn diagonally in
\* front; and a pawn right in front of f1 / f8 takes the kingside castling
\* away.
C29_PawnAttacks ==
    /\ (op = "attack" /\ Free(board, TargetSquare)) =>
          /\ PawnOf(byColor, Behind(TargetSquare, byColor, 1)) => attacked
          /\ (/\ PawnOf(byColor, Behind(TargetSquare, byColor, 2))
              /\ Behind(TargetSquare, byColor, 2)[2] = StartRank(byColor)
              /\ Free(board, Behind(TargetSquare, byColor, 1))) => attacked
          /\ (\A s \in Squares : HoldsColor(board, s, byColor) =>
                  (PawnOf(byColor, s) /\ s[1] # TargetSquare[1])) => ~attacked
    /\ (HomeKing /\ PawnOf(opposite(origin.piece.color),
                           Behind(<<6, HomeRank>>, opposite(origin.piece.color), 1)))
          => IdOf(<<7, HomeRank>>) \notin SetOf(moves)

\* f1 is empty, black's only piece is a pawn on e2 or g2, and f1 is
\* reported as not attacked by black
C29_Witness ==
    /\ op = "attack" /\ target = <<"f", 1>> /\ byColor = "black"
    /\ Free(board, <<6, 1>>)
    /\ PawnOf("black", <<5, 2>>) \/ PawnOf("black", <<7, 2>>)
    /\ \A s \in Squares : HoldsColor(board, s, "black") => PawnOf("black", s)
    /\ ~attacked

-----------------------------------------------------------------------------
(* The returned list as a set, under SpecMoves.                            *)

NoRepeat(list) == \A i \in 1..Len(list) : \A j \in 1..Len(list) :
                      i # j => list[i] # list[j]

\* C30: the list getPossibleMoves returns holds no square twice and never
\* the origin square; the bishop part and the rook part of a queen's list
\* are disjoint, and a king's castling destinations are none of its
\* adjacent-square moves.
C30_NoDuplicates ==
    MovesCall =>
        /\ NoRepeat(moves)
        /\ ~includes(moves, squareId(origin.file, origin.rank))
        /\ origin.piece.type = "queen" =>
              SetOf(getBishopMoves(board, origin, origin.piece.color))
                  \cap SetOf(getRookMoves(board, origin, origin.piece.color)) = {}
        /\ (origin.piece.type = "king" /\ Len(fenArg) > 0) =>
              SetOf(getCastlingMoves(board, origin, origin.piece.color, fenArg))
                  \cap SetOf(getKingMoves(board, origin, origin.piece.color, <<>>)) = {}

\* a queen with all 27 squares of an empty board, or a king with both
\* castling destinations and its five adjacent squares
C30_Witness ==
    /\ MovesCall
    /\ \/ origin.piece.type = "queen" /\ Len(moves) = 27
       \/ HomeKing /\ Len(moves) = 7
             /\ IdOf(<<7, HomeRank>>) \in SetOf(moves)
             /\ IdOf(<<3, HomeRank>>) \in SetOf(moves)

=============================================================================
